---- MODULE Spec2Model ----
(***************************************************************************)
(* Task timer accounting of the GetSync backend: the task documents, the   *)
(* work-log ledger and the handlers of task.service (start, stop, stop-all,*)
(* update, status update, delete).  Timestamps are milliseconds.           *)
(*                                                                         *)
(* Spec     : every request runs to completion and is answered before the  *)
(*            next one starts.                                             *)
(* ConcSpec : requests are split at their awaits (read, create, save) and  *)
(*            the database steps of different requests interleave.         *)
(***************************************************************************)
EXTENDS Integers, Sequences, FiniteSets, Bags, TLC

VARIABLES
    tasks,      \* TaskModel collection: task id -> document
    workLogs,   \* TaskWorkLogModel collection, in creation order
    clock,      \* wall clock, milliseconds
    ticks,      \* number of clock advances so far
    ops,        \* number of requests admitted so far
    last,       \* the response of the request that finished last
    reqs,       \* requests in flight (ConcSpec): a bag of request frames
    dirs,       \* file storage: the absolute paths that are directories
    files,      \* file storage: the absolute paths that are regular files
    accessLog,  \* FileAccessLogModel collection, in creation order
    authDb      \* the User, Account, Workspace, Member and Role collections

vars == <<tasks, workLogs, clock, ticks, ops, last, reqs, dirs, files, accessLog, authDb>>

\* What the task handlers never touch, and what the file handlers never touch.
notTimerVars == <<dirs, files, accessLog, authDb>>
notLibraryVars == <<tasks, workLogs, clock, ticks, reqs, authDb>>

----------------------------------------------------------------------------
(* Bounds *)

MaxTicks == 1
MaxOps == 3
MaxConcOps == 2
MaxInFlight == 2
MaxLibOps == 2
MaxAuthOps == 3

\* Clock advances: half a second, and a minute and a half plus half a second.
TickSteps == {500, 90500}

----------------------------------------------------------------------------
(* Program constants and fixtures *)

MsPerSecond == 1000
SecondsPerMinute == 60

Null == -1          \* null / undefined for numbers and dates
NoText == "null"    \* null / undefined for strings and references

TaskIds == {"t1", "t2"}
TaskOrder == <<"t1", "t2">>        \* natural (insertion) order of find()
Workspaces == {"w1", "w2"}
Users == {"ann", "bob", "cy", "dan"}

OWNER == "OWNER"
ADMIN == "ADMIN"
MEMBER == "MEMBER"

\* Member collection: one role per (user, workspace) pair, NoText = no membership.
Members ==
    [w \in Workspaces |->
        IF w = "w1"
        THEN [u \in Users |-> CASE u = "ann" -> OWNER
                                [] u = "bob" -> ADMIN
                                [] u = "cy"  -> MEMBER
                                [] OTHER     -> NoText]
        ELSE [u \in Users |-> CASE u = "cy"  -> OWNER
                                [] u = "dan" -> MEMBER
                                [] OTHER     -> NoText]]

Undefined == "undefined"    \* a key the request body leaves out

\* Request bodies of the update route, reduced to the fields the model keeps:
\* status is required, assignedTo is a user id, null or left out; the last
\* body also carries a key the schemas do not declare (totalSecondsSpent).
UpdateBodies ==
    {[status |-> "DONE", assignedTo |-> Undefined, totalSecondsSpent |-> Null],
     [status |-> "TODO", assignedTo |-> NoText, totalSecondsSpent |-> Null],
     [status |-> "TODO", assignedTo |-> "cy", totalSecondsSpent |-> Null],
     [status |-> "DONE", assignedTo |-> Undefined, totalSecondsSpent |-> 0]}

\* Variant: the schema lets undeclared keys through.
updateTaskSchemaPassthrough(body) == body

\* updateTaskSchema.parse: z.object drops the keys it does not declare.
updateTaskSchema(body) == [body EXCEPT !.totalSecondsSpent = Null]

\* RolePermissions, reduced to the permissions the task routes and the
\* workspace reports ask for.
RolePermissions ==
    [r \in {OWNER, ADMIN, MEMBER} |->
        IF r = MEMBER THEN {"VIEW_ONLY", "CREATE_TASK", "EDIT_TASK"}
        ELSE {"VIEW_ONLY", "CREATE_TASK", "EDIT_TASK", "DELETE_TASK",
              "MANAGE_WORKSPACE_SETTINGS"}]

\* roleGuard(role, requiredPermissions)
roleGuard(role, required) ==
    IF required \subseteq RolePermissions[role] THEN "OK" ELSE "Unauthorized"
\* Bodies stopTaskTimerSchema accepts: pagesCompleted an optional integer >= 0,
\* remarks an optional string.
StopBodies ==
    {[pagesCompleted |-> Null, remarks |-> NoText],
     [pagesCompleted |-> 0, remarks |-> NoText],
     [pagesCompleted |-> 2, remarks |-> "r"]}

\* JSON values of a stop request body as it arrives.  A number is held in
\* halves, so that 1.5 is [kind |-> "number", halves |-> 3].
Absent == [kind |-> "undefined"]
Num(halves) == [kind |-> "number", halves |-> halves]
Str(text) == [kind |-> "string", text |-> text]

\* Stop request bodies as they arrive: nothing, 0 pages, 2 pages with remarks
\* (also with blanks around them), -1 pages, 1.5 pages, pages as a string,
\* remarks as a number.
RawStopBodies ==
    {[pagesCompleted |-> Absent, remarks |-> Absent],
     [pagesCompleted |-> Num(0), remarks |-> Absent],
     [pagesCompleted |-> Num(4), remarks |-> Str("r")],
     [pagesCompleted |-> Num(4), remarks |-> Str(" r ")],
     [pagesCompleted |-> Num(-2), remarks |-> Absent],
     [pagesCompleted |-> Num(3), remarks |-> Absent],
     [pagesCompleted |-> Str("2"), remarks |-> Absent],
     [pagesCompleted |-> Absent, remarks |-> Num(14)]}

\* String.prototype.trim on the texts of the fixtures.
Trim(text) == IF text = " r " THEN "r" ELSE text

\* Variant: z.number().optional(), without int() and min(0).
PagesValidAnyNumber(v) == v.kind \in {"undefined", "number"}

\* z.number().int().min(0).optional()
PagesValid(v) ==
    \/ v.kind = "undefined"
    \/ v.kind = "number" /\ v.halves % 2 = 0 /\ v.halves >= 0

\* z.string().trim().optional()
RemarksValid(v) == v.kind \in {"undefined", "string"}

\* stopTaskTimerSchema.parse(req.body): the parsed body, or a ZodError.
stopTaskTimerSchema(raw) ==
    IF PagesValid(raw.pagesCompleted) /\ RemarksValid(raw.remarks)
    THEN [err |-> "OK",
          body |-> [pagesCompleted |->
                        IF raw.pagesCompleted.kind = "number"
                        THEN raw.pagesCompleted.halves \div 2 ELSE Null,
                    remarks |->
                        IF raw.remarks.kind = "string"
                        THEN Trim(raw.remarks.text) ELSE NoText]]
    ELSE [err |-> "ZodError", body |-> [pagesCompleted |-> Null, remarks |-> NoText]]

Max(a, b) == IF a >= b THEN a ELSE b

----------------------------------------------------------------------------
(* Role resolution *)

\* getMemberRoleInWorkspace: the role of the membership, or NotFound.
getMemberRoleInWorkspace(userId, workspaceId) ==
    IF Members[workspaceId][userId] = NoText
    THEN [err |-> "NotFound", role |-> NoText]
    ELSE [err |-> "OK", role |-> Members[workspaceId][userId]]

isPrivilegedRole(role) == role = OWNER \/ role = ADMIN

\* Variant: every member of the workspace may use the timer.
ensureTaskTimerAccessAnyMember(task, userId) ==
    IF ~task.exists THEN "NotFound"
    ELSE getMemberRoleInWorkspace(userId, task.workspace).err

\* ensureTaskTimerAccess on a task document that was found (or not).
ensureTaskTimerAccess(task, userId) ==
    IF ~task.exists THEN "NotFound"
    ELSE LET m == getMemberRoleInWorkspace(userId, task.workspace)
             isPrivileged == isPrivilegedRole(m.role)
             isAssignee == task.assignedTo = userId
         IN  IF m.err # "OK" THEN m.err
             ELSE IF ~isPrivileged /\ ~isAssignee THEN "Unauthorized"
             ELSE "OK"

----------------------------------------------------------------------------
(* Timer arithmetic *)

\* Variant: the seconds are not clamped to 1.
durationSecondsUnclamped(now, activeStartAt) == (now - activeStartAt) \div MsPerSecond

\* Math.max(1, Math.floor((now - activeStartAt) / 1000))
durationSeconds(now, activeStartAt) ==
    Max(1, (now - activeStartAt) \div MsPerSecond)

\* Variant: the minutes are not clamped to 1.
durationMinutesUnclamped(seconds) == seconds \div SecondsPerMinute

\* Math.max(1, Math.floor(durationSeconds / 60))
durationMinutes(seconds) == Max(1, seconds \div SecondsPerMinute)

\* task.totalSecondsSpent ?? (task.totalMinutesSpent ?? 0) * 60
currentSeconds(task) ==
    IF task.totalSecondsSpent # Null THEN task.totalSecondsSpent
    ELSE (IF task.totalMinutesSpent # Null THEN task.totalMinutesSpent ELSE 0)
            * SecondsPerMinute

\* Variant: every start records itself as the first start.
StartLocalResetsFirstStart(task, now) ==
    [task EXCEPT !.firstStartedAt = now,
                 !.activeStartAt = now,
                 !.isRunning = TRUE]

\* Variant: the start does not record activeStartAt.
StartLocalWithoutActiveStart(task, now) ==
    [task EXCEPT !.firstStartedAt = IF task.firstStartedAt = Null THEN now ELSE @,
                 !.isRunning = TRUE]

\* The assignments startTaskTimerService makes to the loaded document.
StartLocal(task, now) ==
    [task EXCEPT !.firstStartedAt = IF task.firstStartedAt = Null THEN now ELSE @,
                 !.activeStartAt = now,
                 !.isRunning = TRUE]

\* Variant: the minutes are accumulated on their own, one rounded session at
\* a time.
StopAccountingAddsMinutes(task, now) ==
    LET seconds == durationSeconds(now, task.activeStartAt)
    IN  [task EXCEPT !.totalSecondsSpent = currentSeconds(task) + seconds,
                     !.totalMinutesSpent =
                         (IF @ # Null THEN @ ELSE 0) + durationMinutes(seconds),
                     !.lastStoppedAt = now,
                     !.isRunning = FALSE,
                     !.activeStartAt = Null]

\* The accounting both stop paths make to the loaded document.
StopAccounting(task, now) ==
    LET total == currentSeconds(task) + durationSeconds(now, task.activeStartAt)
    IN  [task EXCEPT !.totalSecondsSpent = total,
                     !.totalMinutesSpent = total \div SecondsPerMinute,
                     !.lastStoppedAt = now,
                     !.isRunning = FALSE,
                     !.activeStartAt = Null]

\* Variant: the supplied pages replace the page total.
StopLocalReplacesPages(task, now, body) ==
    LET acc == StopAccounting(task, now)
    IN  [acc EXCEPT !.pagesCompleted =
                        IF body.pagesCompleted # Null THEN body.pagesCompleted ELSE @,
                    !.remarks = IF body.remarks # NoText THEN body.remarks ELSE @]

\* The assignments stopTaskTimerService makes to the loaded document.
StopLocal(task, now, body) ==
    LET acc == StopAccounting(task, now)
        currentPages == IF task.pagesCompleted # Null THEN task.pagesCompleted ELSE 0
    IN  [acc EXCEPT !.pagesCompleted =
                        IF body.pagesCompleted # Null
                        THEN currentPages + body.pagesCompleted ELSE @,
                    !.remarks = IF body.remarks # NoText THEN body.remarks ELSE @]

\* The document TaskWorkLogModel.create receives from stopTaskTimerService.
StopLog(task, userId, now, body) ==
    [taskId |-> task.id,
     userId |-> userId,
     startedAt |-> task.activeStartAt,
     stoppedAt |-> now,
     durationMinutes |-> durationMinutes(durationSeconds(now, task.activeStartAt)),
     pagesCompleted |-> body.pagesCompleted,
     remarks |-> body.remarks]

\* Variant: the work-log names the user who asked for the stop-all.
StopAllLogUserInvoker(task, userId) == userId

\* task.assignedTo ?? task.createdBy ?? userId
StopAllLogUser(task, userId) ==
    IF task.assignedTo # NoText THEN task.assignedTo
    ELSE IF task.createdBy # NoText THEN task.createdBy
    ELSE userId

\* The document TaskWorkLogModel.create receives from stopAllRunningTaskTimersService.
StopAllLog(task, userId, now) ==
    [taskId |-> task.id,
     userId |-> StopAllLogUser(task, userId),
     startedAt |-> task.activeStartAt,
     stoppedAt |-> now,
     durationMinutes |-> durationMinutes(durationSeconds(now, task.activeStartAt)),
     pagesCompleted |-> Null,
     remarks |-> NoText]

\* Variant: the find is not restricted to the workspace.
RunningFilterAnyWorkspace(task, workspaceId) ==
    /\ task.exists
    /\ task.isRunning
    /\ task.activeStartAt # Null

\* TaskModel.find({workspace, isRunning: true, activeStartAt: {$ne: null}})
RunningFilter(task, workspaceId) ==
    /\ task.exists
    /\ task.workspace = workspaceId
    /\ task.isRunning
    /\ task.activeStartAt # Null

RunningTasks(db, workspaceId) == {t \in TaskIds : RunningFilter(db[t], workspaceId)}

\* The ids of S in find() order.
RECURSIVE InOrder(_, _)
InOrder(S, i) ==
    IF i > Len(TaskOrder) THEN <<>>
    ELSE (IF TaskOrder[i] \in S THEN <<TaskOrder[i]>> ELSE <<>>) \o InOrder(S, i + 1)

\* The work-logs of one stop-all pass, in find() order.
RECURSIVE StopAllLogs(_, _, _, _)
StopAllLogs(db, order, userId, now) ==
    IF order = <<>> THEN <<>>
    ELSE <<StopAllLog(db[Head(order)], userId, now)>>
            \o StopAllLogs(db, Tail(order), userId, now)

----------------------------------------------------------------------------
(* Persistence *)

TimerFields ==
    {"isRunning", "firstStartedAt", "activeStartAt", "lastStoppedAt",
     "totalSecondsSpent", "totalMinutesSpent", "pagesCompleted", "remarks"}

TaskFields ==
    TimerFields \cup {"id", "exists", "workspace", "assignedTo", "createdBy", "status"}

\* document.save(): one atomic update that sets the paths whose value the
\* handler changed since the document was loaded; the other paths keep what
\* the collection holds.
SaveDelta(stored, loaded, local) ==
    [f \in TaskFields |-> IF local[f] # loaded[f] THEN local[f] ELSE stored[f]]

----------------------------------------------------------------------------
(* File library: paths *)

\* A path is the sequence of its segments; <<>> is "/" for an absolute path
\* and "" for a relative one.
StorageRoot == <<"srv">>        \* config.FILE_STORAGE_ROOT

\* path.join(config.FILE_STORAGE_ROOT, workspaceId)
workspaceRoot(workspaceId) == Append(StorageRoot, workspaceId)

\* Relative paths a request supplies.
RelPaths ==
    {<<>>, <<"docs">>, <<"docs", "a">>, <<"docs", "..">>, <<"..", "..", "etc">>}

\* Folder and file names a request supplies.
RawNames == {"docs", "a", "d/ocs"}

IsPrefix(p, q) == Len(p) <= Len(q) /\ SubSeq(q, 1, Len(p)) = p

Prefixes(p) == {SubSeq(p, 1, k) : k \in 0..Len(p)}

\* path.dirname and path.basename
DirName(p) == IF Len(p) <= 1 THEN <<>> ELSE SubSeq(p, 1, Len(p) - 1)
BaseName(p) == IF p = <<>> THEN "" ELSE p[Len(p)]

\* path normalisation: "." is dropped and ".." removes the segment before it.
RECURSIVE Normalize(_, _)
Normalize(stack, rest) ==
    IF rest = <<>> THEN stack
    ELSE LET h == Head(rest)
         IN  IF h = ".." THEN Normalize(DirName(stack), Tail(rest))
             ELSE IF h = "." THEN Normalize(stack, Tail(rest))
             ELSE Normalize(Append(stack, h), Tail(rest))

\* resolveWorkspacePath: the normalised absolute path of relPath under the
\* root, refused when it is not the root or below it.
resolveWorkspacePath(root, relPath) ==
    LET targetAbs == Normalize(root, relPath)
    IN  IF IsPrefix(root, targetAbs)
        THEN [err |-> "OK", targetAbs |-> targetAbs]
        ELSE [err |-> "BadRequest", targetAbs |-> <<>>]

\* sanitizeFileName: path separators are stripped from the name.
sanitizeFileName(name) == IF name = "d/ocs" THEN "docs" ELSE name

----------------------------------------------------------------------------
(* File library: services *)

FolderExists == "BadRequest: Folder already exists"

\* The document logFileAccess creates.
LogEntry(workspaceId, userId, action, logPath, fileName) ==
    [workspaceId |-> workspaceId, userId |-> userId, action |-> action,
     path |-> logPath, fileName |-> fileName, createdAt |-> Null]

\* timestamps: {createdAt: true}: the entries as the collection stores them.
Stamped(logs, now) == [i \in 1..Len(logs) |-> [logs[i] EXCEPT !.createdAt = now]]

\* What a service call leaves behind: its outcome, the storage and the
\* access-log entries it created.
Outcome(result, d, f, logs) == [result |-> result, dirs |-> d, files |-> f, logs |-> logs]

\* ensureWorkspaceRoot: fs.mkdir(workspaceRoot, {recursive: true})
ensureWorkspaceRoot(d, workspaceId) == d \cup Prefixes(workspaceRoot(workspaceId))

\* Variant: listing a folder leaves no access-log entry.
listWorkspaceFilesServiceSilent(d, f, workspaceId, userId, relPath) ==
    LET d1 == ensureWorkspaceRoot(d, workspaceId)
        r == resolveWorkspacePath(workspaceRoot(workspaceId), relPath)
    IN  IF r.err # "OK" THEN Outcome(r.err, d1, f, <<>>)
        ELSE IF r.targetAbs \notin d1 \cup f THEN Outcome("NotFound", d1, f, <<>>)
        ELSE IF r.targetAbs \notin d1 THEN Outcome("BadRequest", d1, f, <<>>)
        ELSE Outcome("OK", d1, f, <<>>)

\* listWorkspaceFilesService
listWorkspaceFilesService(d, f, workspaceId, userId, relPath) ==
    LET d1 == ensureWorkspaceRoot(d, workspaceId)
        r == resolveWorkspacePath(workspaceRoot(workspaceId), relPath)
    IN  IF r.err # "OK" THEN Outcome(r.err, d1, f, <<>>)
        ELSE IF r.targetAbs \notin d1 \cup f THEN Outcome("NotFound", d1, f, <<>>)
        ELSE IF r.targetAbs \notin d1 THEN Outcome("BadRequest", d1, f, <<>>)
        ELSE Outcome("OK", d1, f,
                     <<LogEntry(workspaceId, userId, "ENTER", relPath, NoText)>>)

\* getWorkspaceFileDownloadService
getWorkspaceFileDownloadService(d, f, workspaceId, userId, relPath) ==
    LET r == resolveWorkspacePath(workspaceRoot(workspaceId), relPath)
    IN  IF r.err # "OK" THEN Outcome(r.err, d, f, <<>>)
        ELSE IF r.targetAbs \notin d \cup f THEN Outcome("NotFound", d, f, <<>>)
        ELSE IF r.targetAbs \notin f THEN Outcome("BadRequest", d, f, <<>>)
        ELSE Outcome("OK", d, f,
                     <<LogEntry(workspaceId, userId, "DOWNLOAD", DirName(relPath),
                                BaseName(r.targetAbs))>>)

\* One file of uploadWorkspaceFilesService: fs.writeFile, then logFileAccess.
\* Writing over a directory fails.
RECURSIVE SaveFiles(_, _, _, _, _, _)
SaveFiles(acc, targetAbs, workspaceId, userId, relPath, names) ==
    IF names = <<>> THEN acc
    ELSE LET safeName == sanitizeFileName(Head(names))
             destination == Append(targetAbs, safeName)
             next ==
                IF destination \in acc.dirs
                THEN [acc EXCEPT !.result = "Internal"]
                ELSE [acc EXCEPT
                        !.files = @ \cup {destination},
                        !.logs = Append(@, LogEntry(workspaceId, userId, "UPLOAD",
                                                    relPath, safeName))]
         IN  SaveFiles(next, targetAbs, workspaceId, userId, relPath, Tail(names))

\* uploadWorkspaceFilesService
uploadWorkspaceFilesService(d, f, workspaceId, userId, relPath, names) ==
    IF names = <<>> THEN Outcome("BadRequest", d, f, <<>>)
    ELSE LET d1 == ensureWorkspaceRoot(d, workspaceId)
             r == resolveWorkspacePath(workspaceRoot(workspaceId), relPath)
         IN  IF r.err # "OK" THEN Outcome(r.err, d1, f, <<>>)
             ELSE IF Prefixes(r.targetAbs) \cap f # {}
             THEN Outcome("Internal", d1, f, <<>>)
             ELSE SaveFiles(Outcome("OK", d1 \cup Prefixes(r.targetAbs), f, <<>>),
                            r.targetAbs, workspaceId, userId, relPath, names)

\* Variant: fs.mkdir(folderPath, {recursive: true}), which accepts a folder
\* that is already there.
createWorkspaceFolderServiceRecursive(d, f, workspaceId, userId, relPath, name) ==
    LET d1 == ensureWorkspaceRoot(d, workspaceId)
        r == resolveWorkspacePath(workspaceRoot(workspaceId), relPath)
        safeName == sanitizeFileName(name)
        folderPath == Append(r.targetAbs, safeName)
    IN  IF r.err # "OK" THEN Outcome(r.err, d1, f, <<>>)
        ELSE IF Prefixes(folderPath) \cap f # {} THEN Outcome("Internal", d1, f, <<>>)
        ELSE Outcome("OK", d1 \cup Prefixes(folderPath), f,
                     <<LogEntry(workspaceId, userId, "CREATE_FOLDER", relPath,
                                safeName)>>)

\* createWorkspaceFolderService: fs.mkdir(folderPath, {recursive: false})
createWorkspaceFolderService(d, f, workspaceId, userId, relPath, name) ==
    LET d1 == ensureWorkspaceRoot(d, workspaceId)
        r == resolveWorkspacePath(workspaceRoot(workspaceId), relPath)
        safeName == sanitizeFileName(name)
        folderPath == Append(r.targetAbs, safeName)
    IN  IF r.err # "OK" THEN Outcome(r.err, d1, f, <<>>)
        ELSE IF folderPath \in d1 \cup f THEN Outcome(FolderExists, d1, f, <<>>)
        ELSE IF r.targetAbs \notin d1 THEN Outcome("Internal", d1, f, <<>>)
        ELSE Outcome("OK", d1 \cup {folderPath}, f,
                     <<LogEntry(workspaceId, userId, "CREATE_FOLDER", relPath,
                                safeName)>>)

\* Variant: the target is path.join(workspaceRoot, relPath), not passed
\* through resolveWorkspacePath.
deleteWorkspaceItemServiceJoined(d, f, workspaceId, userId, relPath) ==
    LET d1 == ensureWorkspaceRoot(d, workspaceId)
        targetAbs == Normalize(workspaceRoot(workspaceId), relPath)
        itemName == BaseName(targetAbs)
        parentPath == DirName(relPath)
    IN  IF targetAbs \notin d1 \cup f THEN Outcome("NotFound", d1, f, <<>>)
        ELSE IF targetAbs \in d1
        THEN Outcome("OK",
                     {p \in d1 : ~IsPrefix(targetAbs, p)},
                     {p \in f : ~IsPrefix(targetAbs, p)},
                     <<LogEntry(workspaceId, userId, "DELETE_FOLDER", parentPath,
                                itemName)>>)
        ELSE Outcome("OK", d1, f \ {targetAbs},
                     <<LogEntry(workspaceId, userId, "DELETE_FILE", parentPath,
                                itemName)>>)

\* Variant: a directory is removed without what is under it.
deleteWorkspaceItemServiceShallow(d, f, workspaceId, userId, relPath) ==
    LET d1 == ensureWorkspaceRoot(d, workspaceId)
        r == resolveWorkspacePath(workspaceRoot(workspaceId), relPath)
        itemName == BaseName(r.targetAbs)
        parentPath == DirName(relPath)
    IN  IF r.err # "OK" THEN Outcome(r.err, d1, f, <<>>)
        ELSE IF r.targetAbs \notin d1 \cup f THEN Outcome("NotFound", d1, f, <<>>)
        ELSE IF r.targetAbs \in d1
        THEN Outcome("OK", d1 \ {r.targetAbs}, f,
                     <<LogEntry(workspaceId, userId, "DELETE_FOLDER", parentPath,
                                itemName)>>)
        ELSE Outcome("OK", d1, f \ {r.targetAbs},
                     <<LogEntry(workspaceId, userId, "DELETE_FILE", parentPath,
                                itemName)>>)

\* deleteWorkspaceItemService: fs.rm(targetAbs, {recursive: true}) for a
\* directory, fs.unlink(targetAbs) for a file.
deleteWorkspaceItemService(d, f, workspaceId, userId, relPath) ==
    LET d1 == ensureWorkspaceRoot(d, workspaceId)
        r == resolveWorkspacePath(workspaceRoot(workspaceId), relPath)
        itemName == BaseName(r.targetAbs)
        parentPath == DirName(relPath)
    IN  IF r.err # "OK" THEN Outcome(r.err, d1, f, <<>>)
        ELSE IF r.targetAbs \notin d1 \cup f THEN Outcome("NotFound", d1, f, <<>>)
        ELSE IF r.targetAbs \in d1
        THEN Outcome("OK",
                     {p \in d1 : ~IsPrefix(r.targetAbs, p)},
                     {p \in f : ~IsPrefix(r.targetAbs, p)},
                     <<LogEntry(workspaceId, userId, "DELETE_FOLDER", parentPath,
                                itemName)>>)
        ELSE Outcome("OK", d1, f \ {r.targetAbs},
                     <<LogEntry(workspaceId, userId, "DELETE_FILE", parentPath,
                                itemName)>>)

----------------------------------------------------------------------------
(* Accounts: the bootstrap of a user with a workspace of their own *)

\* The collections before anything is written; the roles are seeded when the
\* database connection is made.
EmptyDb == [users |-> {}, accounts |-> {}, workspaces |-> {}, members |-> {}, roles |-> <<>>]

RoleNames == <<OWNER, ADMIN, MEMBER>>       \* Object.keys(RolePermissions)

\* Variant: the lookup by name finds nothing.
RoleFoundNever(roles, role) == FALSE

\* RoleModel.findOne({ name: role }) has found a document.
RoleFound(roles, role) == \E j \in 1..Len(roles) : roles[j].name = role

\* The rounds i..n of the loop of ensureRolesSeeded: a role that is not
\* found by name is created with the permissions of the table.
RECURSIVE SeedFrom(_, _, _)
SeedFrom(roles, i, n) ==
    IF i > n THEN roles
    ELSE LET role == RoleNames[i]
             existingRole == RoleFound(roles, role)
         IN  SeedFrom(IF existingRole THEN roles
                      ELSE Append(roles, [name |-> role,
                                          permissions |-> RolePermissions[role]]),
                      i + 1, n)

ensureRolesSeeded(roles) == SeedFrom(roles, 1, Len(RoleNames))

\* EMPLOYEE_CREDENTIALS, reduced to one ADMIN and one MEMBER.
EMPLOYEE_CREDENTIALS ==
    {[employeeCode |-> "COK001", password |-> "pw1", role |-> ADMIN],
     [employeeCode |-> "COK004", password |-> "pw4", role |-> MEMBER]}

\* `${employeeCode.toLowerCase()}@${EMPLOYEE_EMAIL_DOMAIN}`
employeeEmail(employeeCode) ==
    IF employeeCode = "COK001" THEN "cok001@getsync.local" ELSE "cok004@getsync.local"

\* The writes of a transaction that can fail: the saves of the user, of the
\* account, of the workspace and of the member, the save of the user's
\* current workspace and the commit; 0 is a run in which none fails.
Faults == 0..6

\* A session: the collections as the transaction sees them, and the error
\* that has been thrown in it.
Session(d) == [err |-> "OK", db |-> d]

\* A write under {session}: skipped once an error has been thrown, thrown as
\* an error itself when it is the write that fails.
Write(k, fault, s, d) ==
    IF s.err # "OK" THEN s
    ELSE IF fault = k THEN [err |-> "Internal", db |-> s.db]
    ELSE [err |-> "OK", db |-> d]

\* Variant: the writes made before the error stay in the collections.
abortTransactionKeepsWrites(d, s) == s.db

\* session.abortTransaction(): the collections are as before the transaction.
abortTransaction(d, s) == d

\* session.commitTransaction(), or the catch block when an error was thrown.
EndSession(d, s) ==
    IF s.err = "OK" THEN [result |-> "OK", db |-> s.db]
    ELSE [result |-> s.err, db |-> abortTransaction(d, s)]

\* The documents of a new user: the user, its account, a workspace it owns
\* (identified by its owner here) and its membership with the role found by
\* name; the user's current workspace is set last.
Bootstrap(s, email, provider, roleName, fault) ==
    LET user == [email |-> email, currentWorkspace |-> NoText]
        s1 == Write(1, fault, s, [s.db EXCEPT !.users = @ \cup {user}])
        s2 == Write(2, fault, s1,
                    [s1.db EXCEPT !.accounts =
                        @ \cup {[userId |-> email, provider |-> provider,
                                 providerId |-> email]}])
        s3 == Write(3, fault, s2,
                    [s2.db EXCEPT !.workspaces = @ \cup {[id |-> email, owner |-> email]}])
        s4 == IF s3.err = "OK"
                   /\ ~\E j \in 1..Len(s3.db.roles) : s3.db.roles[j].name = roleName
              THEN [err |-> "NotFound", db |-> s3.db]
              ELSE s3
        s5 == Write(4, fault, s4,
                    [s4.db EXCEPT !.members =
                        @ \cup {[userId |-> email, workspaceId |-> email,
                                 role |-> roleName]}])
        s6 == Write(5, fault, s5,
                    [s5.db EXCEPT !.users =
                        (@ \ {user}) \cup {[user EXCEPT !.currentWorkspace = email]}])
    IN  Write(6, fault, s6, s6.db)

\* registerUserService
registerUserService(d, email, fault) ==
    LET s == Session(d)
        existingUser == \E u \in d.users : u.email = email
    IN  IF existingUser THEN EndSession(d, [err |-> "BadRequest", db |-> d])
        ELSE EndSession(d, Bootstrap(s, email, "EMAIL", OWNER, fault))

\* loginOrCreateAccountService
loginOrCreateAccountService(d, provider, email, fault) ==
    LET s == Session(d)
    IN  IF \E u \in d.users : u.email = email
        THEN EndSession(d, Write(6, fault, s, d))
        ELSE EndSession(d, Bootstrap(s, email, provider, OWNER, fault))

\* verifyUserService
verifyUserService(d, employeeCode, password, fault) ==
    LET found == {c \in EMPLOYEE_CREDENTIALS :
                     c.employeeCode = employeeCode /\ c.password = password}
    IN  IF found = {} THEN [result |-> "Unauthorized", db |-> d]
        ELSE LET credential == CHOOSE c \in found : TRUE
                 email == employeeEmail(credential.employeeCode)
             IN  IF \E u \in d.users : u.email = email
                 THEN [result |-> "OK", db |-> d]
                 ELSE EndSession(d, Bootstrap(Session(d), email, "EMAIL",
                                              credential.role, fault))

\* The storage before any request: the storage root exists, no workspace
\* directory does yet, and there is a directory outside the storage root.
LibraryInit ==
    /\ dirs = {<<>>, <<"etc">>, StorageRoot}
    /\ files = {<<"etc", "passwd">>}
    /\ accessLog = <<>>
    /\ authDb = EmptyDb

----------------------------------------------------------------------------
(* Initial state *)

\* Totals of a document written before the seconds accumulator existed
\* (minutes only, with the pages and the remarks of the work done then), and
\* of a task as createTaskService leaves it.
LegacyTotals == [s |-> Null, m |-> 1, p |-> 3, r |-> "old"]
FreshTotals == [s |-> 0, m |-> 0, p |-> Null, r |-> NoText]

\* The workspace the tasks were created in; the task routes are called with it.
HomeWorkspace == "w1"

NewTask(id, w, assignee, creator, totals) ==
    [id |-> id, exists |-> TRUE, workspace |-> w,
     assignedTo |-> assignee, createdBy |-> creator, status |-> "TODO",
     isRunning |-> FALSE, firstStartedAt |-> Null, activeStartAt |-> Null,
     lastStoppedAt |-> Null,
     totalSecondsSpent |-> totals.s, totalMinutesSpent |-> totals.m,
     pagesCompleted |-> totals.p, remarks |-> totals.r]

\* The body of a response that carries no report.
NoData == [kind |-> "none"]

NoResponse == [op |-> "none", result |-> "none", stoppedCount |-> Null, data |-> NoData]

\* What the controller answers: the outcome and, for stop-all, stoppedCount.
Response(op, result, count) ==
    [op |-> op, result |-> result, stoppedCount |-> count, data |-> NoData]

\* What a report controller answers with: what its service has returned.
DataResponse(op, data) ==
    [op |-> op, result |-> "OK", stoppedCount |-> Null, data |-> data]

\* What remains of a task after findOneAndDelete.
DeletedTask(id) ==
    [id |-> id, exists |-> FALSE, workspace |-> NoText,
     assignedTo |-> NoText, createdBy |-> NoText, status |-> NoText,
     isRunning |-> FALSE, firstStartedAt |-> Null, activeStartAt |-> Null,
     lastStoppedAt |-> Null, totalSecondsSpent |-> Null, totalMinutesSpent |-> Null,
     pagesCompleted |-> Null, remarks |-> NoText]

NoBody == [pagesCompleted |-> Null, remarks |-> NoText]

\* What a request holds across its awaits, before anything is filled in.
FreeFrame ==
    [kind |-> "none", actor |-> NoText, body |-> NoBody, now |-> Null,
     snaps |-> [t \in TaskIds |-> DeletedTask(t)],
     todo |-> [t \in TaskIds |-> "none"]]

Init ==
    /\ tasks = [t \in TaskIds |->
                  IF t = "t1" THEN NewTask("t1", HomeWorkspace, "cy", "ann", FreshTotals)
                  ELSE NewTask("t2", HomeWorkspace, NoText, "bob", LegacyTotals)]
    /\ workLogs = <<>>
    /\ clock = 0
    /\ ticks = 0
    /\ ops = 0
    /\ last = NoResponse
    /\ reqs = EmptyBag
    /\ LibraryInit

----------------------------------------------------------------------------
(* The checks each handler makes before it changes anything *)

\* Variant: a running timer can be started again.
StartOutcomeWithoutConflict(task, userId) == ensureTaskTimerAccess(task, userId)

\* startTaskTimerService up to the Conflict check.
StartOutcome(task, userId) ==
    LET access == ensureTaskTimerAccess(task, userId)
    IN  IF access # "OK" THEN access
        ELSE IF task.isRunning THEN "Conflict"
        ELSE "OK"

\* Variant: the Conflict check comes before the access check.
StopOutcomeStateFirst(task, userId) ==
    IF task.exists /\ (~task.isRunning \/ task.activeStartAt = Null) THEN "Conflict"
    ELSE ensureTaskTimerAccess(task, userId)

\* stopTaskTimerService up to the Conflict check.
StopOutcome(task, userId) ==
    LET access == ensureTaskTimerAccess(task, userId)
    IN  IF access # "OK" THEN access
        ELSE IF ~task.isRunning \/ task.activeStartAt = Null THEN "Conflict"
        ELSE "OK"

\* Variant: every member of the workspace may stop all timers.
StopAllOutcomeAnyMember(workspaceId, userId) ==
    getMemberRoleInWorkspace(userId, workspaceId).err

\* stopAllRunningTaskTimersService up to the role check.
StopAllOutcome(workspaceId, userId) ==
    LET m == getMemberRoleInWorkspace(userId, workspaceId)
    IN  IF m.err # "OK" THEN m.err
        ELSE IF ~isPrivilegedRole(m.role) THEN "Unauthorized"
        ELSE "OK"

\* The controller's membership lookup and roleGuard, then the service's
\* lookup of the task in the workspace of the route.
GuardedOutcome(task, userId, workspaceId, permission) ==
    LET m == getMemberRoleInWorkspace(userId, workspaceId)
    IN  IF m.err # "OK" THEN m.err
        ELSE IF roleGuard(m.role, {permission}) # "OK" THEN "Unauthorized"
        ELSE IF ~task.exists \/ task.workspace # workspaceId THEN "NotFound"
        ELSE "OK"

\* The $set findByIdAndUpdate applies for updateTaskService: the keys of the
\* parsed body that are present.
UpdatePayload(task, body) ==
    [task EXCEPT !.status = body.status,
                 !.assignedTo = IF body.assignedTo = Undefined THEN @
                                ELSE body.assignedTo,
                 !.totalSecondsSpent = IF body.totalSecondsSpent = Null THEN @
                                       ELSE body.totalSecondsSpent]

\* The $set findByIdAndUpdate applies for updateTaskStatusService.
StatusPayload(task, status) == [task EXCEPT !.status = status]

\* Variant: every role reaches updateTaskService.
UpdatedTaskOneService(task, userId, workspaceId, body) ==
    UpdatePayload(task, updateTaskSchema(body))

\* updateTaskController: a MEMBER reaches updateTaskStatusService, the other
\* roles updateTaskService.
UpdatedTask(task, userId, workspaceId, body) ==
    IF getMemberRoleInWorkspace(userId, workspaceId).role = MEMBER
    THEN StatusPayload(task, body.status)
    ELSE UpdatePayload(task, updateTaskSchema(body))

----------------------------------------------------------------------------
(* Requests that run to completion (Spec) *)

Tick ==
    /\ ticks < MaxTicks
    /\ \E d \in TickSteps : clock' = clock + d
    /\ ticks' = ticks + 1
    /\ UNCHANGED <<tasks, workLogs, ops, last, reqs>>
    /\ UNCHANGED notTimerVars

\* A request that changes the collections counts against MaxOps; a rejected
\* request changes nothing but the response.
Admit ==
    /\ ops < MaxOps
    /\ ops' = ops + 1

Rejected(op, outcome) ==
    /\ last' = Response(op, outcome, Null)
    /\ UNCHANGED <<tasks, workLogs, ops>>

\* startTaskTimerController -> startTaskTimerService(taskId, userId)
StartTaskTimer(t, u) ==
    /\ last = NoResponse
    /\ LET task == tasks[t]
           outcome == StartOutcome(task, u)
       IN  IF outcome # "OK" THEN Rejected("start", outcome)
           ELSE /\ Admit
                /\ tasks' = [tasks EXCEPT ![t] =
                                SaveDelta(task, task, StartLocal(task, clock))]
                /\ last' = Response("start", "OK", Null)
                /\ UNCHANGED workLogs
    /\ UNCHANGED <<clock, ticks, reqs>>
    /\ UNCHANGED notTimerVars

\* stopTaskTimerController -> stopTaskTimerService(taskId, userId, body)
StopTaskTimer(t, u, body) ==
    /\ last = NoResponse
    /\ LET task == tasks[t]
           outcome == StopOutcome(task, u)
       IN  IF outcome # "OK" THEN Rejected("stop", outcome)
           ELSE /\ Admit
                /\ workLogs' = Append(workLogs, StopLog(task, u, clock, body))
                /\ tasks' = [tasks EXCEPT ![t] =
                                SaveDelta(task, task, StopLocal(task, clock, body))]
                /\ last' = Response("stop", "OK", Null)
    /\ UNCHANGED <<clock, ticks, reqs>>
    /\ UNCHANGED notTimerVars

\* stopTaskTimerController: the body is parsed before the service is called;
\* the ZodError of a body that does not parse goes to the error handler.
StopTaskTimerController(t, u, raw) ==
    LET parsed == stopTaskTimerSchema(raw)
    IN  IF parsed.err # "OK"
        THEN /\ last = NoResponse
             /\ Rejected("stop", parsed.err)
             /\ UNCHANGED <<clock, ticks, reqs>>
             /\ UNCHANGED notTimerVars
        ELSE StopTaskTimer(t, u, parsed.body)

\* stopAllRunningTaskTimersController ->
\* stopAllRunningTaskTimersService(workspaceId, userId)
StopAllRunningTaskTimers(w, u) ==
    /\ last = NoResponse
    /\ LET outcome == StopAllOutcome(w, u)
           running == RunningTasks(tasks, w)
       IN  IF outcome # "OK" THEN Rejected("stopAll", outcome)
           ELSE IF Cardinality(running) = 0
           THEN /\ last' = Response("stopAll", "OK", 0)
                /\ UNCHANGED <<tasks, workLogs, ops>>
           ELSE /\ Admit
                /\ workLogs' = workLogs \o
                                 StopAllLogs(tasks, InOrder(running, 1), u, clock)
                /\ tasks' = [t \in TaskIds |->
                                IF t \in running
                                THEN SaveDelta(tasks[t], tasks[t],
                                               StopAccounting(tasks[t], clock))
                                ELSE tasks[t]]
                /\ last' = Response("stopAll", "OK", Cardinality(running))
    /\ UNCHANGED <<clock, ticks, reqs>>
    /\ UNCHANGED notTimerVars

\* updateTaskController -> updateTaskStatusService | updateTaskService
UpdateTask(t, u, w, body) ==
    /\ last = NoResponse
    /\ LET task == tasks[t]
           outcome == GuardedOutcome(task, u, w, "EDIT_TASK")
       IN  IF outcome # "OK" THEN Rejected("update", outcome)
           ELSE /\ Admit
                /\ tasks' = [tasks EXCEPT ![t] = UpdatedTask(task, u, w, body)]
                /\ last' = Response("update", "OK", Null)
                /\ UNCHANGED workLogs
    /\ UNCHANGED <<clock, ticks, reqs>>
    /\ UNCHANGED notTimerVars

\* Variant: deleting a task also deletes its work-logs.
DeleteTaskCascade(t, u, w) ==
    /\ last = NoResponse
    /\ LET task == tasks[t]
           outcome == GuardedOutcome(task, u, w, "DELETE_TASK")
       IN  IF outcome # "OK" THEN Rejected("delete", outcome)
           ELSE /\ Admit
                /\ tasks' = [tasks EXCEPT ![t] = DeletedTask(t)]
                /\ workLogs' = SelectSeq(workLogs, LAMBDA l : l.taskId # t)
                /\ last' = Response("delete", "OK", Null)
    /\ UNCHANGED <<clock, ticks, reqs>>
    /\ UNCHANGED notTimerVars

\* deleteTaskController -> deleteTaskService
DeleteTask(t, u, w) ==
    /\ last = NoResponse
    /\ LET task == tasks[t]
           outcome == GuardedOutcome(task, u, w, "DELETE_TASK")
       IN  IF outcome # "OK" THEN Rejected("delete", outcome)
           ELSE /\ Admit
                /\ tasks' = [tasks EXCEPT ![t] = DeletedTask(t)]
                /\ last' = Response("delete", "OK", Null)
                /\ UNCHANGED workLogs
    /\ UNCHANGED <<clock, ticks, reqs>>
    /\ UNCHANGED notTimerVars

\* The controller has sent the response; the next request can be served.
Respond ==
    /\ last # NoResponse
    /\ last' = NoResponse
    /\ UNCHANGED <<tasks, workLogs, clock, ticks, ops, reqs>>
    /\ UNCHANGED notTimerVars

Next ==
    \/ Tick
    \/ Respond
    \/ \E t \in TaskIds, u \in Users : StartTaskTimer(t, u)
    \/ \E t \in TaskIds, u \in Users, body \in StopBodies : StopTaskTimer(t, u, body)
    \/ \E w \in Workspaces, u \in Users : StopAllRunningTaskTimers(w, u)
    \/ \E t \in TaskIds, u \in Users, body \in UpdateBodies :
          UpdateTask(t, u, HomeWorkspace, body)
    \/ \E t \in TaskIds, u \in Users : DeleteTask(t, u, HomeWorkspace)

Spec == Init /\ [][Next]_vars

----------------------------------------------------------------------------
(* Requests split at their awaits (ConcSpec).  Each step is one database    *)
(* operation together with the synchronous code that follows it; responses *)
(* are not recorded.  The interleaved runs begin where Spec is after the    *)
(* timer of t1 has been started at time 0.                                 *)

ConcInit ==
    /\ tasks = [t \in TaskIds |->
                  IF t = "t1"
                  THEN StartLocal(
                           NewTask("t1", HomeWorkspace, "cy", "ann", FreshTotals), 0)
                  ELSE NewTask("t2", HomeWorkspace, NoText, "bob", LegacyTotals)]
    /\ workLogs = <<>>
    /\ clock = 0
    /\ ticks = 0
    /\ ops = 0
    /\ last = NoResponse
    /\ reqs = EmptyBag
    /\ LibraryInit

\* The requests that interleave come from the owner and from the assignee of
\* t1 (a MEMBER); a stop supplies its pages, an update sets the status and
\* may clear the assignee.
ConcUsers == {"ann", "cy"}

ConcStopBodies == {body \in StopBodies : body.pagesCompleted # Null}

ConcUpdateBodies ==
    {body \in UpdateBodies :
        body.assignedTo \in {Undefined, NoText} /\ body.totalSecondsSpent = Null}

\* A request that changes the collections counts against MaxConcOps.
ConcAdmit ==
    /\ ops < MaxConcOps
    /\ ops' = ops + 1

\* A request can be taken while fewer than MaxInFlight are in flight.
HasRoom == BagCardinality(reqs) < MaxInFlight

Settled(todo) == \A t \in TaskIds : todo[t] \in {"none", "done", "failed"}

\* The requests in flight after one per-task step of a frame: the request
\* leaves when its last step has settled.
Advance(frame, t, step) ==
    LET todo == [frame.todo EXCEPT ![t] = step]
        rest == reqs (-) SetToBag({frame})
    IN  IF Settled(todo) THEN rest
        ELSE rest (+) SetToBag({[frame EXCEPT !.todo = todo]})

\* startTaskTimerService: findById, the checks and the assignments; the save
\* is pending.  userId is not used after the access check.
BeginStart(t, u) ==
    /\ HasRoom
    /\ StartOutcome(tasks[t], u) = "OK"
    /\ ConcAdmit
    /\ reqs' = reqs (+) SetToBag({
                   [FreeFrame EXCEPT !.kind = "start", !.now = clock,
                                     !.snaps = [@ EXCEPT ![t] = tasks[t]],
                                     !.todo = [@ EXCEPT ![t] = "save"]]})
    /\ UNCHANGED <<tasks, workLogs, clock, ticks, last>>
    /\ UNCHANGED notTimerVars

\* stopTaskTimerService: findById, the checks and the duration; the create
\* and the save are pending.
BeginStop(t, u, body) ==
    /\ HasRoom
    /\ StopOutcome(tasks[t], u) = "OK"
    /\ ConcAdmit
    /\ reqs' = reqs (+) SetToBag({
                   [FreeFrame EXCEPT !.kind = "stop", !.actor = u,
                                     !.body = body, !.now = clock,
                                     !.snaps = [@ EXCEPT ![t] = tasks[t]],
                                     !.todo = [@ EXCEPT ![t] = "create"]]})
    /\ UNCHANGED <<tasks, workLogs, clock, ticks, last>>
    /\ UNCHANGED notTimerVars

\* stopAllRunningTaskTimersService: the role check and the find; one create
\* and one save are pending for every task found.
BeginStopAll(w, u) ==
    /\ HasRoom
    /\ StopAllOutcome(w, u) = "OK"
    /\ RunningTasks(tasks, w) # {}
    /\ ConcAdmit
    /\ reqs' = reqs (+) SetToBag({
                   [FreeFrame EXCEPT
                       !.kind = "stopAll", !.actor = u, !.now = clock,
                       !.snaps = [t \in TaskIds |->
                                     IF t \in RunningTasks(tasks, w) THEN tasks[t]
                                     ELSE DeletedTask(t)],
                       !.todo = [t \in TaskIds |->
                                     IF t \in RunningTasks(tasks, w) THEN "create"
                                     ELSE "none"]]})
    /\ UNCHANGED <<tasks, workLogs, clock, ticks, last>>
    /\ UNCHANGED notTimerVars

\* The work-log a pending create of the frame inserts.
FrameLog(frame, t) ==
    IF frame.kind = "stop"
    THEN StopLog(frame.snaps[t], frame.actor, frame.now, frame.body)
    ELSE StopAllLog(frame.snaps[t], frame.actor, frame.now)

\* The document a pending save of the frame holds.
FrameLocal(frame, t) ==
    CASE frame.kind = "start" -> StartLocal(frame.snaps[t], frame.now)
      [] frame.kind = "stop"  -> StopLocal(frame.snaps[t], frame.now, frame.body)
      [] OTHER                -> StopAccounting(frame.snaps[t], frame.now)

\* await TaskWorkLogModel.create(...)
CreateLog(frame, t) ==
    /\ frame.todo[t] = "create"
    /\ workLogs' = Append(workLogs, FrameLog(frame, t))
    /\ reqs' = Advance(frame, t, "save")
    /\ UNCHANGED <<tasks, clock, ticks, ops, last>>
    /\ UNCHANGED notTimerVars

\* await task.save(): fails when the document is gone.
SaveTask(frame, t) ==
    /\ frame.todo[t] = "save"
    /\ IF tasks[t].exists
       THEN /\ tasks' = [tasks EXCEPT ![t] =
                            SaveDelta(@, frame.snaps[t], FrameLocal(frame, t))]
            /\ reqs' = Advance(frame, t, "done")
       ELSE /\ reqs' = Advance(frame, t, "failed")
            /\ UNCHANGED tasks
    /\ UNCHANGED <<workLogs, clock, ticks, ops, last>>
    /\ UNCHANGED notTimerVars

\* findByIdAndUpdate of the update handlers: one atomic $set.
UpdateStep(t, u, w, body) ==
    /\ GuardedOutcome(tasks[t], u, w, "EDIT_TASK") = "OK"
    /\ ConcAdmit
    /\ tasks' = [tasks EXCEPT ![t] = UpdatedTask(@, u, w, body)]
    /\ UNCHANGED <<workLogs, clock, ticks, last, reqs>>
    /\ UNCHANGED notTimerVars

\* findOneAndDelete of deleteTaskService.
DeleteStep(t, u, w) ==
    /\ GuardedOutcome(tasks[t], u, w, "DELETE_TASK") = "OK"
    /\ ConcAdmit
    /\ tasks' = [tasks EXCEPT ![t] = DeletedTask(t)]
    /\ UNCHANGED <<workLogs, clock, ticks, last, reqs>>
    /\ UNCHANGED notTimerVars

ConcNext ==
    \/ Tick
    \/ \E t \in TaskIds, u \in ConcUsers : BeginStart(t, u)
    \/ \E t \in TaskIds, u \in ConcUsers, body \in ConcStopBodies : BeginStop(t, u, body)
    \/ \E w \in Workspaces, u \in ConcUsers : BeginStopAll(w, u)
    \/ \E frame \in BagToSet(reqs), t \in TaskIds : CreateLog(frame, t)
    \/ \E frame \in BagToSet(reqs), t \in TaskIds : SaveTask(frame, t)
    \/ \E t \in TaskIds, u \in ConcUsers, body \in ConcUpdateBodies :
          UpdateStep(t, u, HomeWorkspace, body)
    \/ \E t \in TaskIds, u \in ConcUsers : DeleteStep(t, u, HomeWorkspace)

ConcSpec == ConcInit /\ [][ConcNext]_vars

----------------------------------------------------------------------------
(* Workspace reports (ReportSpec): progress summary, progress of one        *)
(* employee and file activity, asked for between timer requests            *)

MsPerDay == 86400000

\* The date ranges of the progress routes: from and to, Null when left out.
Ranges ==
    {[from |-> Null, to |-> Null],
     [from |-> 500, to |-> Null],
     [from |-> Null, to |-> 500],
     [from |-> 1, to |-> 90499]}

\* The employees the detail route is asked about.
Employees == {"ann", "cy"}

\* Who asks for a progress report and for which range: everyone asks for the
\* whole ledger, the owners of the two workspaces for every range.
ReportQueries ==
    {q \in [u : Users, range : Ranges] :
        q.range = [from |-> Null, to |-> Null] \/ q.u \in {"ann", "cy"}}

\* The days the file-activity route is asked about.
ActivityDays == {7}

\* The users whose timer requests fill the ledger.
ReportActors == {"ann", "cy"}

\* The bodies of their stop requests.
ReportStopBodies == {body \in StopBodies : body.pagesCompleted # 0}

\* Variant: the range leaves out a work-log stopped exactly at `to`.
InRangeOpenEnd(log, range) ==
    /\ range.from = Null \/ log.stoppedAt >= range.from
    /\ range.to = Null \/ log.stoppedAt < range.to

\* The work-log was stopped within the range, both ends included; an end that
\* is left out is open.
InRange(log, range) ==
    /\ range.from = Null \/ log.stoppedAt >= range.from
    /\ range.to = Null \/ log.stoppedAt <= range.to

\* The work-logs of the employee on tasks of the workspace, stopped within
\* the range.
EmployeeLogs(ts, logs, workspaceId, employeeId, range) ==
    SelectSeq(logs, LAMBDA log :
        /\ log.userId = employeeId
        /\ ts[log.taskId].workspace = workspaceId
        /\ InRange(log, range))

RECURSIVE SumMinutes(_)
SumMinutes(logs) ==
    IF logs = <<>> THEN 0 ELSE Head(logs).durationMinutes + SumMinutes(Tail(logs))

RECURSIVE SumPages(_)
SumPages(logs) ==
    IF logs = <<>> THEN 0
    ELSE (IF Head(logs).pagesCompleted = Null THEN 0 ELSE Head(logs).pagesCompleted)
         + SumPages(Tail(logs))

RECURSIVE LastStop(_)
LastStop(logs) ==
    IF logs = <<>> THEN Null ELSE Max(Head(logs).stoppedAt, LastStop(Tail(logs)))

\* The figures of one employee: tasks assigned, minutes worked and pages
\* completed in the range, and the latest stop in the range (or null).
EmployeeStats(ts, logs, workspaceId, employeeId, range) ==
    LET mine == EmployeeLogs(ts, logs, workspaceId, employeeId, range)
    IN  [userId |-> employeeId,
         totalAssigned |-> Cardinality({t \in TaskIds :
                                /\ ts[t].exists
                                /\ ts[t].workspace = workspaceId
                                /\ ts[t].assignedTo = employeeId}),
         totalMinutes |-> SumMinutes(mine),
         totalPages |-> SumPages(mine),
         lastActiveAt |-> LastStop(mine)]

\* getWorkspaceProgressSummaryService(workspaceId, from, to): the figures of
\* every member of the workspace.
getWorkspaceProgressSummaryService(ts, logs, workspaceId, range) ==
    [kind |-> "summary",
     dateRange |-> range,
     employeeStats |->
        [e \in {u \in Users : Members[workspaceId][u] # NoText} |->
            EmployeeStats(ts, logs, workspaceId, e, range)]]

\* getWorkspaceProgressEmployeeService(workspaceId, employeeId, from, to): the
\* figures of one employee and their work-logs in the range.
getWorkspaceProgressEmployeeService(ts, logs, workspaceId, employeeId, range) ==
    [kind |-> "employee",
     dateRange |-> range,
     employee |-> EmployeeStats(ts, logs, workspaceId, employeeId, range),
     workLogs |-> EmployeeLogs(ts, logs, workspaceId, employeeId, range)]

\* The sequence from its last element to its first.
Reverse(seq) == [i \in 1..Len(seq) |-> seq[Len(seq) + 1 - i]]

\* listWorkspaceFileActivityService: the entries of the workspace created in
\* the last `days` days, latest first.
listWorkspaceFileActivityService(entries, workspaceId, days, now) ==
    LET cutoff == now - days * MsPerDay
    IN  [kind |-> "activity",
         logs |-> Reverse(SelectSeq(entries, LAMBDA log :
                     log.workspaceId = workspaceId /\ log.createdAt >= cutoff))]

\* Variant: the report controllers ask for a membership only.
ManageSettingsGateMembersOnly(userId, workspaceId) ==
    getMemberRoleInWorkspace(userId, workspaceId).err

\* getMemberRoleInWorkspace(userId, workspaceId), then
\* roleGuard(role, [Permissions.MANAGE_WORKSPACE_SETTINGS])
ManageSettingsGate(userId, workspaceId) ==
    LET m == getMemberRoleInWorkspace(userId, workspaceId)
    IN  IF m.err # "OK" THEN m.err
        ELSE roleGuard(m.role, {"MANAGE_WORKSPACE_SETTINGS"})

\* A report request: the gate, then the service, whose answer is sent back.
Reported(op, gate, data) ==
    /\ last = NoResponse
    /\ last' = IF gate # "OK" THEN Response(op, gate, Null) ELSE DataResponse(op, data)
    /\ UNCHANGED <<tasks, workLogs, clock, ticks, ops, reqs>>
    /\ UNCHANGED notTimerVars

\* getWorkspaceProgressSummaryController
GetWorkspaceProgressSummary(w, u, range) ==
    Reported("progressSummary", ManageSettingsGate(u, w),
             getWorkspaceProgressSummaryService(tasks, workLogs, w, range))

\* getWorkspaceProgressEmployeeController
GetWorkspaceProgressEmployee(w, u, e, range) ==
    Reported("progressEmployee", ManageSettingsGate(u, w),
             getWorkspaceProgressEmployeeService(tasks, workLogs, w, e, range))

\* getWorkspaceFileActivityController
GetWorkspaceFileActivity(w, u, days) ==
    Reported("fileActivity", ManageSettingsGate(u, w),
             listWorkspaceFileActivityService(accessLog, w, days, clock))

----------------------------------------------------------------------------
(* File library requests (LibSpec): each request runs to completion *)

\* The users whose requests reach the file library: the owner of w1, who has
\* no membership in w2, and a member of w2, who has none in w1.
LibUsers == {"ann", "dan"}

\* The file lists an upload request carries.
UploadLists == {<<>>, <<"a">>, <<"a", "d/ocs">>}

\* The controller has refused the request before it called the service.
Refused(result) == Outcome(result, dirs, files, <<>>)

\* The request has run: its response, and what it left in the storage and in
\* the access log.  A request that changes either counts against MaxLibOps.
Served(op, out) ==
    /\ last = NoResponse
    /\ last' = Response(op, out.result, Null)
    /\ dirs' = out.dirs
    /\ files' = out.files
    /\ accessLog' = accessLog \o Stamped(out.logs, clock)
    /\ IF out.dirs = dirs /\ out.files = files /\ out.logs = <<>>
       THEN UNCHANGED ops
       ELSE ops < MaxLibOps /\ ops' = ops + 1
    /\ UNCHANGED notLibraryVars

\* listWorkspaceFilesController
ListWorkspaceFiles(w, u, relPath) ==
    LET m == getMemberRoleInWorkspace(u, w)
    IN  Served("list",
               IF m.err # "OK" THEN Refused(m.err)
               ELSE listWorkspaceFilesService(dirs, files, w, u, relPath))

\* downloadWorkspaceFileController
DownloadWorkspaceFile(w, u, relPath) ==
    LET m == getMemberRoleInWorkspace(u, w)
    IN  Served("download",
               IF relPath = <<>> THEN Refused("BadRequest")
               ELSE IF m.err # "OK" THEN Refused(m.err)
               ELSE getWorkspaceFileDownloadService(dirs, files, w, u, relPath))

\* uploadWorkspaceFilesController
UploadWorkspaceFiles(w, u, relPath, names) ==
    LET m == getMemberRoleInWorkspace(u, w)
    IN  Served("upload",
               IF m.err # "OK" THEN Refused(m.err)
               ELSE uploadWorkspaceFilesService(dirs, files, w, u, relPath, names))

\* createWorkspaceFolderController
CreateWorkspaceFolder(w, u, relPath, name) ==
    LET m == getMemberRoleInWorkspace(u, w)
    IN  Served("createFolder",
               IF m.err # "OK" THEN Refused(m.err)
               ELSE createWorkspaceFolderService(dirs, files, w, u, relPath, name))

\* deleteWorkspaceItemController
DeleteWorkspaceItem(w, u, relPath) ==
    LET m == getMemberRoleInWorkspace(u, w)
    IN  Served("deleteItem",
               IF relPath = <<>> THEN Refused("BadRequest")
               ELSE IF m.err # "OK" THEN Refused(m.err)
               ELSE deleteWorkspaceItemService(dirs, files, w, u, relPath))

LibNext ==
    \/ Respond
    \/ \E w \in Workspaces, u \in LibUsers, relPath \in RelPaths :
          ListWorkspaceFiles(w, u, relPath)
    \/ \E w \in Workspaces, u \in LibUsers, relPath \in RelPaths :
          DownloadWorkspaceFile(w, u, relPath)
    \/ \E w \in Workspaces, u \in LibUsers, relPath \in RelPaths, names \in UploadLists :
          UploadWorkspaceFiles(w, u, relPath, names)
    \/ \E w \in Workspaces, u \in LibUsers, relPath \in RelPaths, name \in RawNames :
          CreateWorkspaceFolder(w, u, relPath, name)
    \/ \E w \in Workspaces, u \in LibUsers, relPath \in RelPaths :
          DeleteWorkspaceItem(w, u, relPath)

LibSpec == Init /\ [][LibNext]_vars

----------------------------------------------------------------------------
(* Workspace reports: the requests *)

\* The report requests come between timer requests, which fill the ledger,
\* and listings of the workspace root, which fill the access log.
ReportNext ==
    \/ Tick
    \/ Respond
    \/ \E t \in TaskIds, u \in ReportActors : StartTaskTimer(t, u)
    \/ \E t \in TaskIds, u \in ReportActors, body \in ReportStopBodies :
          StopTaskTimer(t, u, body)
    \/ \E w \in Workspaces, q \in ReportQueries :
          GetWorkspaceProgressSummary(w, q.u, q.range)
    \/ \E w \in Workspaces, q \in ReportQueries, e \in Employees :
          GetWorkspaceProgressEmployee(w, q.u, e, q.range)
    \/ \E w \in Workspaces, u \in Users, days \in ActivityDays :
          GetWorkspaceFileActivity(w, u, days)
    \/ \E u \in LibUsers : ListWorkspaceFiles(HomeWorkspace, u, <<>>)

ReportSpec == Init /\ [][ReportNext]_vars

----------------------------------------------------------------------------
(* Account requests (AuthSpec): each request runs to completion *)

\* The e-mail addresses of the register and login requests.
Emails == {"a@x", "b@x"}

\* What the verify request carries.
EmployeeCodes == {"COK001", "COK004", "COK999"}
Passwords == {"pw1", "pw4"}

\* The request has run: its response and the collections it leaves.  A
\* request that changes the collections counts against MaxAuthOps.
Answered(op, out) ==
    /\ last = NoResponse
    /\ last' = Response(op, out.result, Null)
    /\ authDb' = out.db
    /\ IF out.db = authDb THEN UNCHANGED ops
       ELSE ops < MaxAuthOps /\ ops' = ops + 1
    /\ UNCHANGED <<tasks, workLogs, clock, ticks, reqs, dirs, files, accessLog>>

\* connectDatabase -> ensureRolesSeeded()
EnsureRolesSeeded ==
    /\ last = NoResponse
    /\ authDb' = [authDb EXCEPT !.roles = ensureRolesSeeded(@)]
    /\ UNCHANGED <<tasks, workLogs, clock, ticks, ops, last, reqs, dirs, files, accessLog>>

\* connectDatabase -> ensureRolesSeeded() in a process that is ended after
\* the first k rounds of the loop.
EnsureRolesSeededCutShort(k) ==
    /\ last = NoResponse
    /\ authDb' = [authDb EXCEPT !.roles = SeedFrom(@, 1, k)]
    /\ UNCHANGED <<tasks, workLogs, clock, ticks, ops, last, reqs, dirs, files, accessLog>>

RegisterUser(email, fault) ==
    Answered("register", registerUserService(authDb, email, fault))

LoginOrCreateAccount(email, fault) ==
    Answered("login", loginOrCreateAccountService(authDb, "GOOGLE", email, fault))

VerifyUser(employeeCode, password, fault) ==
    Answered("verify", verifyUserService(authDb, employeeCode, password, fault))

AuthNext ==
    \/ Respond
    \/ EnsureRolesSeeded
    \/ \E k \in 1..(Len(RoleNames) - 1) : EnsureRolesSeededCutShort(k)
    \/ \E email \in Emails, fault \in Faults : RegisterUser(email, fault)
    \/ \E email \in Emails, fault \in Faults : LoginOrCreateAccount(email, fault)
    \/ \E employeeCode \in EmployeeCodes, password \in Passwords, fault \in Faults :
          VerifyUser(employeeCode, password, fault)

AuthSpec == Init /\ [][AuthNext]_vars

----------------------------------------------------------------------------
(* Timer requests that fail (FaultSpec): the body of a stop does not parse, *)
(* or the work-log create or the task save of a stop throws, and the        *)
(* request is answered with that error                                      *)

\* The awaited writes of one stop.
StopWrites == {"create", "save"}

\* The users whose requests meet a failing write.
FaultUsers == {"ann", "cy"}

\* The bodies of their stop requests.
FaultStopBodies == {body \in StopBodies : body.pagesCompleted # 0}

\* Variant: a rejected callback undoes the stops of the other tasks.
SettledTasksNone(running, bad) == {}

\* Promise.all(runningTasks.map(...)): the callbacks run independently, so
\* those of the other tasks complete when the callback of one task rejects.
SettledTasks(running, bad) == running \ {bad}

\* The stop request bodies as they arrive from these users: those that parse
\* to one of the bodies above and those that do not parse.
FaultRawBodies ==
    {raw \in RawStopBodies :
        \/ stopTaskTimerSchema(raw).err # "OK"
        \/ stopTaskTimerSchema(raw).body \in FaultStopBodies}

\* stopTaskTimerService when the write `step` throws: a failed create leaves
\* everything as it is, a failed save leaves the work-log that was created.
StopTaskTimerFailing(t, u, body, step) ==
    /\ last = NoResponse
    /\ StopOutcome(tasks[t], u) = "OK"
    /\ IF step = "create"
       THEN UNCHANGED <<workLogs, ops>>
       ELSE /\ Admit
            /\ workLogs' = Append(workLogs, StopLog(tasks[t], u, clock, body))
    /\ last' = Response("stop", "Internal", Null)
    /\ UNCHANGED <<tasks, clock, ticks, reqs>>
    /\ UNCHANGED notTimerVars

\* stopAllRunningTaskTimersService when the write `step` of the task `bad`
\* throws: Promise.all rejects with that error.
StopAllFailing(w, u, bad, step) ==
    /\ last = NoResponse
    /\ StopAllOutcome(w, u) = "OK"
    /\ LET running == RunningTasks(tasks, w)
           settled == SettledTasks(running, bad)
           logged == IF step = "create" THEN settled ELSE settled \cup {bad}
       IN  /\ bad \in running
           /\ IF logged = {} THEN UNCHANGED ops ELSE Admit
           /\ workLogs' = workLogs \o StopAllLogs(tasks, InOrder(logged, 1), u, clock)
           /\ tasks' = [t \in TaskIds |->
                           IF t \in settled
                           THEN SaveDelta(tasks[t], tasks[t],
                                          StopAccounting(tasks[t], clock))
                           ELSE tasks[t]]
    /\ last' = Response("stopAll", "Internal", Null)
    /\ UNCHANGED <<clock, ticks, reqs>>
    /\ UNCHANGED notTimerVars

FaultNext ==
    \/ Tick
    \/ Respond
    \/ \E t \in TaskIds, u \in FaultUsers : StartTaskTimer(t, u)
    \/ \E t \in TaskIds, u \in FaultUsers, raw \in FaultRawBodies :
          StopTaskTimerController(t, u, raw)
    \/ \E u \in FaultUsers : StopAllRunningTaskTimers(HomeWorkspace, u)
    \/ \E t \in TaskIds, u \in FaultUsers, body \in FaultStopBodies, step \in StopWrites :
          StopTaskTimerFailing(t, u, body, step)
    \/ \E u \in FaultUsers, bad \in TaskIds, step \in StopWrites :
          StopAllFailing(HomeWorkspace, u, bad, step)

FaultSpec == Init /\ [][FaultNext]_vars

----------------------------------------------------------------------------
(* Vocabulary of the properties *)

\* The timer is Running.
Running(t) == tasks[t].exists /\ tasks[t].isRunning

\* The actor is OWNER or ADMIN in the task's workspace, or the task's assignee.
MayUseTimer(t, u) ==
    \/ Members[tasks[t].workspace][u] \in {OWNER, ADMIN}
    \/ tasks[t].assignedTo = u

\* The actor has a membership in the task's workspace.
IsMember(t, u) == Members[tasks[t].workspace][u] # NoText

\* The actor is a MEMBER of the task's workspace and not the task's assignee.
PlainMember(t, u) ==
    /\ Members[tasks[t].workspace][u] = MEMBER
    /\ tasks[t].assignedTo # u

TimerState(t) == [f \in TimerFields |-> tasks[t][f]]

TimersUnchanged == \A t \in TaskIds : TimerState(t)' = TimerState(t)

LastLog == workLogs[Len(workLogs)]

\* Whole seconds between two instants.
WholeSeconds(from, to) == (to - from) \div MsPerSecond

----------------------------------------------------------------------------
(* C1 *)

\* C1: in every reachable state, whatever the interleaving of the database
\* steps of start, stop, stop-all, update and delete requests, every task has
\* isRunning = true exactly when activeStartAt is non-null.
C1_RunningIffActiveStart ==
    \A t \in TaskIds :
        tasks[t].exists => (tasks[t].isRunning <=> tasks[t].activeStartAt # Null)

\* A task that a stop has made Idle while a second request that loaded it
\* Running still has its save pending.
C1_Witness ==
    \E t \in TaskIds, frame \in BagToSet(reqs) :
        /\ tasks[t].exists
        /\ ~tasks[t].isRunning
        /\ tasks[t].lastStoppedAt # Null
        /\ frame.todo[t] = "save"
        /\ frame.snaps[t].isRunning

----------------------------------------------------------------------------
(* C2 *)

\* C2: for an authorized actor, a start on a Running task and a stop on an
\* Idle task are answered with Conflict, change no timer field and append no
\* work-log.
C2_ConflictOnWrongState ==
    [][/\ last'.op = "start" =>
            \A t \in TaskIds, u \in Users :
                (Running(t) /\ IsMember(t, u) /\ MayUseTimer(t, u)
                    /\ StartTaskTimer(t, u))
                => (last'.result = "Conflict" /\ TimersUnchanged
                      /\ workLogs' = workLogs)
       /\ last'.op = "stop" =>
            \A t \in TaskIds, u \in Users, body \in StopBodies :
                (tasks[t].exists /\ ~tasks[t].isRunning /\ IsMember(t, u)
                    /\ MayUseTimer(t, u) /\ StopTaskTimer(t, u, body))
                => (last'.result = "Conflict" /\ TimersUnchanged
                      /\ workLogs' = workLogs)
      ]_vars

\* A start was answered with Conflict while a timer runs.
C2_Witness ==
    /\ last = Response("start", "Conflict", Null)
    /\ \E t \in TaskIds : Running(t)

----------------------------------------------------------------------------
(* C3 *)

\* C3 as stated: a successful stop logs max(1, floor(elapsed / 60)) minutes
\* and adds elapsed to totalSecondsSpent, elapsed being the whole seconds
\* between activeStartAt and the stop time.
C3_Original ==
    [][\A t \in TaskIds, u \in Users, body \in StopBodies :
          (last' = Response("stop", "OK", Null) /\ ops' = ops + 1
              /\ tasks[t].totalSecondsSpent # Null /\ StopTaskTimer(t, u, body))
          => LET elapsed == WholeSeconds(tasks[t].activeStartAt, clock)
             IN  /\ LastLog'.durationMinutes = Max(1, elapsed \div SecondsPerMinute)
                 /\ tasks'[t].totalSecondsSpent = tasks[t].totalSecondsSpent + elapsed
      ]_vars

\* C3 amended: the same with elapsed = max(1, whole seconds between
\* activeStartAt and the stop time); a task without a seconds accumulator
\* starts from 60 times its totalMinutesSpent.
C3_StopAccounting ==
    [][\A t \in TaskIds, u \in Users, body \in StopBodies :
          (last' = Response("stop", "OK", Null) /\ ops' = ops + 1
              /\ StopTaskTimer(t, u, body))
          => LET elapsed == Max(1, WholeSeconds(tasks[t].activeStartAt, clock))
                 before == IF tasks[t].totalSecondsSpent # Null
                           THEN tasks[t].totalSecondsSpent
                           ELSE tasks[t].totalMinutesSpent * SecondsPerMinute
             IN  /\ Len(workLogs') = Len(workLogs) + 1
                 /\ LastLog'.taskId = t
                 /\ LastLog'.durationMinutes = Max(1, elapsed \div SecondsPerMinute)
                 /\ tasks'[t].totalSecondsSpent = before + elapsed
      ]_vars

\* A stop less than a second after the start has been accounted as one second.
C3_Witness ==
    /\ last = Response("stop", "OK", Null)
    /\ Len(workLogs) > 0
    /\ LastLog.stoppedAt - LastLog.startedAt < MsPerSecond
    /\ tasks[LastLog.taskId].exists
    /\ tasks[LastLog.taskId].totalSecondsSpent = 1

----------------------------------------------------------------------------
(* C4 *)

----------------------------------------------------------------------------
(* C5 *)

\* C5: a start or stop that succeeds was requested by an OWNER or ADMIN of the
\* task's workspace or by the task's assignee; a MEMBER who is not the
\* assignee is answered Unauthorized, and no timer field and no work-log
\* changes.
C5_TimerAccess ==
    [][\A t \in TaskIds, u \in Users :
          LET request ==
                  \/ last'.op = "start" /\ StartTaskTimer(t, u)
                  \/ last'.op = "stop"
                        /\ \E body \in StopBodies : StopTaskTimer(t, u, body)
          IN  /\ (last'.result = "OK" /\ request) => MayUseTimer(t, u)
              /\ (tasks[t].exists /\ PlainMember(t, u) /\ request)
                    => (last'.result = "Unauthorized" /\ TimersUnchanged
                          /\ workLogs' = workLogs)
      ]_vars

\* A timer request was answered Unauthorized while a timer runs.
C5_Witness ==
    /\ last.op \in {"start", "stop"}
    /\ last.result = "Unauthorized"
    /\ \E t \in TaskIds : Running(t)

----------------------------------------------------------------------------
(* C6 *)

\* C6: stop-all requested by a member whose role is neither OWNER nor ADMIN is
\* answered Unauthorized, stops no task and appends no work-log.
C6_StopAllPrivilegedOnly ==
    [][last'.op = "stopAll" =>
          \A w \in Workspaces, u \in Users :
              (Members[w][u] \notin {NoText, OWNER, ADMIN}
                  /\ StopAllRunningTaskTimers(w, u))
              => (last'.result = "Unauthorized" /\ tasks' = tasks
                    /\ workLogs' = workLogs)
      ]_vars

\* Stop-all was answered Unauthorized while a timer runs.
C6_Witness ==
    /\ last = Response("stopAll", "Unauthorized", Null)
    /\ \E t \in TaskIds : Running(t)

----------------------------------------------------------------------------
(* C7 *)

\* The positions of the work-logs the step appended for task t.
NewLogsOf(t) ==
    {i \in (Len(workLogs) + 1)..Len(workLogs') : workLogs'[i].taskId = t}

\* C7: stop-all by an OWNER or ADMIN on a workspace with N Running tasks
\* returns stoppedCount N and appends exactly N work-logs, one for each of
\* those tasks, which are Idle afterwards; with N = 0 it appends none.
C7_StopAllCount ==
    [][last'.op = "stopAll" =>
          \A w \in Workspaces, u \in Users :
              (Members[w][u] \in {OWNER, ADMIN} /\ StopAllRunningTaskTimers(w, u))
              => LET R == {t \in TaskIds : Running(t) /\ tasks[t].workspace = w}
                 IN  /\ last'.result = "OK"
                     /\ last'.stoppedCount = Cardinality(R)
                     /\ Len(workLogs') = Len(workLogs) + Cardinality(R)
                     /\ \A t \in R : /\ Cardinality(NewLogsOf(t)) = 1
                                     /\ ~tasks'[t].isRunning
      ]_vars

\* Stop-all has stopped two timers and logged both.
C7_Witness ==
    /\ last = Response("stopAll", "OK", 2)
    /\ Len(workLogs) >= 2
    /\ \A t \in TaskIds : tasks[t].exists /\ ~tasks[t].isRunning

----------------------------------------------------------------------------
(* C8 *)

\* C8: across every step, also when the database steps of stop, start and
\* stop-all requests on one task interleave, no task's totalSecondsSpent or
\* pagesCompleted decreases.
C8_NeverDecrease ==
    [][\A t \in TaskIds :
          (tasks[t].exists /\ tasks'[t].exists)
          => /\ tasks'[t].totalSecondsSpent >= tasks[t].totalSecondsSpent
             /\ tasks'[t].pagesCompleted >= tasks[t].pagesCompleted
      ]_vars

----------------------------------------------------------------------------
(* C9 *)

\* The step has stopped the timer of t.
Stopped(t) == Running(t) /\ tasks'[t].exists /\ ~tasks'[t].isRunning

\* C9: every step keeps the work-logs it finds, unchanged and in place, and
\* appends exactly one work-log for each task whose timer it stops and none
\* for any other task; update and delete append and remove nothing.
C9_LedgerAppendOnly ==
    [][/\ Len(workLogs') >= Len(workLogs)
       /\ SubSeq(workLogs', 1, Len(workLogs)) = workLogs
       /\ \A t \in TaskIds :
             Cardinality(NewLogsOf(t)) = IF Stopped(t) THEN 1 ELSE 0
       /\ last'.op \in {"update", "delete"} => workLogs' = workLogs
      ]_vars

\* The work-log of a task outlives the task.
C9_Witness ==
    \E i \in 1..Len(workLogs) : ~tasks[workLogs[i].taskId].exists

----------------------------------------------------------------------------
(* C10 *)

\* C10: every work-log has durationMinutes >= 1, and a work-log whose stop
\* came less than a second after its start has durationMinutes = 1.
C10_MinimumOneMinute ==
    \A i \in 1..Len(workLogs) :
        /\ workLogs[i].durationMinutes >= 1
        /\ (workLogs[i].stoppedAt - workLogs[i].startedAt < MsPerSecond)
              => workLogs[i].durationMinutes = 1

\* A work-log of a session that lasted half a second.
C10_Witness ==
    \E i \in 1..Len(workLogs) :
        /\ workLogs[i].stoppedAt > workLogs[i].startedAt
        /\ workLogs[i].stoppedAt - workLogs[i].startedAt < MsPerSecond

----------------------------------------------------------------------------
(* C11 *)

----------------------------------------------------------------------------
(* C12 *)

\* C12: every work-log a stop-all appends names the task's assignee, or the
\* task's creator when the task has no assignee, or the invoking actor when it
\* has neither.
C12_StopAllLogUser ==
    [][last'.op = "stopAll" =>
         \A w \in Workspaces, u \in Users :
            StopAllRunningTaskTimers(w, u)
            => \A i \in (Len(workLogs) + 1)..Len(workLogs') :
                  LET task == tasks[workLogs'[i].taskId]
                  IN  workLogs'[i].userId =
                         CASE task.assignedTo # NoText -> task.assignedTo
                           [] task.createdBy # NoText  -> task.createdBy
                           [] OTHER                    -> u
      ]_vars

\* A stop-all has stopped both tasks: the log of t1 names its assignee, who
\* is a MEMBER and cannot have asked for the stop-all, and the log of the
\* unassigned t2 names its creator.
C12_Witness ==
    /\ last = Response("stopAll", "OK", 2)
    /\ Len(workLogs) >= 2
    /\ LET l1 == workLogs[Len(workLogs) - 1]
           l2 == workLogs[Len(workLogs)]
       IN  /\ l1.taskId = "t1" /\ l1.userId = "cy" /\ tasks["t1"].assignedTo = "cy"
           /\ l2.taskId = "t2" /\ l2.userId = "bob" /\ tasks["t2"].assignedTo = NoText

----------------------------------------------------------------------------
(* C13 *)

\* C13: an update request, whatever its body and whichever of the two update
\* services it reaches, changes no timer field of any task.
C13_UpdateKeepsTimerFields ==
    [][last'.op = "update" => TimersUnchanged]_vars

\* An update whose body carried totalSecondsSpent was accepted for a task
\* that has time recorded.
C13_Witness ==
    /\ last = Response("update", "OK", Null)
    /\ \E t \in TaskIds :
          /\ tasks[t].exists
          /\ tasks[t].status = "DONE"
          /\ tasks[t].totalSecondsSpent # Null
          /\ tasks[t].totalSecondsSpent > 0

----------------------------------------------------------------------------
(* Vocabulary of the file library properties *)

\* The user has a membership in the workspace.
InWorkspace(u, w) == Members[w][u] # NoText

\* Where the relative paths lead from the root of each workspace.
Targets ==
    [w \in Workspaces |-> [relPath \in RelPaths |-> Normalize(workspaceRoot(w), relPath)]]

\* Where a relative path leads from the root of the workspace.
TargetOf(w, relPath) == Targets[w][relPath]

\* The relative path stays at or below the root of the workspace.
Inside(w, relPath) == IsPrefix(workspaceRoot(w), TargetOf(w, relPath))

\* The paths the step has created or removed.
ChangedPaths ==
    (dirs' \ dirs) \cup (dirs \ dirs') \cup (files' \ files) \cup (files \ files')

\* The access-log entries the step has appended.
NewEntries == SubSeq(accessLog', Len(accessLog) + 1, Len(accessLog'))

LastEntry == accessLog[Len(accessLog)]

\* The step is a file library request on the workspace.
LibraryRequest(w) ==
    \/ \E u \in LibUsers, relPath \in RelPaths : ListWorkspaceFiles(w, u, relPath)
    \/ \E u \in LibUsers, relPath \in RelPaths : DownloadWorkspaceFile(w, u, relPath)
    \/ \E u \in LibUsers, relPath \in RelPaths, names \in UploadLists :
          UploadWorkspaceFiles(w, u, relPath, names)
    \/ \E u \in LibUsers, relPath \in RelPaths, name \in RawNames :
          CreateWorkspaceFolder(w, u, relPath, name)
    \/ \E u \in LibUsers, relPath \in RelPaths : DeleteWorkspaceItem(w, u, relPath)

----------------------------------------------------------------------------
(* C14 *)

\* The request creates a folder whose name is already taken in the directory
\* its path leads to.
NameTaken(w, u, relPath, name) ==
    /\ InWorkspace(u, w)
    /\ Inside(w, relPath)
    /\ Append(TargetOf(w, relPath), sanitizeFileName(name)) \in dirs \cup files

----------------------------------------------------------------------------
(* C15 *)

\* What the resolver answers: an accepted path leads to the root of the
\* workspace or below it, "../../etc" is refused and the empty path is the
\* root.
ResolverStaysInside ==
    \A w \in Workspaces, relPath \in RelPaths :
        LET r == resolveWorkspacePath(workspaceRoot(w), relPath)
        IN  /\ r.err = "OK" => IsPrefix(workspaceRoot(w), r.targetAbs)
            /\ relPath = <<"..", "..", "etc">> => r.err # "OK"
            /\ relPath = <<>> => (r.err = "OK" /\ r.targetAbs = workspaceRoot(w))

\* C15: a path is accepted only when it leads to the root of the workspace
\* or below it ("../../etc" is refused, the empty path is the root), and a
\* file library request on a workspace creates and removes nothing outside
\* the root of that workspace.
C15_StaysInsideRoot ==
    [][/\ ResolverStaysInside
       /\ ChangedPaths # {} =>
            \A w \in Workspaces :
                LibraryRequest(w)
                => \A p \in ChangedPaths : IsPrefix(workspaceRoot(w), p)
      ]_vars

\* A listing of "../../etc" has been refused: no file has been uploaded yet,
\* so the refusal is not about a path that is a file.
C15_Witness ==
    /\ last = Response("list", "BadRequest", Null)
    /\ workspaceRoot("w1") \in dirs
    /\ files = {<<"etc", "passwd">>}
    /\ <<"etc">> \in dirs

----------------------------------------------------------------------------
(* C16 *)

\* All the entries are of the action and of the user.
AllEntries(entries, w, u, action) ==
    \A i \in 1..Len(entries) :
        /\ entries[i].action = action
        /\ entries[i].userId = u
        /\ entries[i].workspaceId = w

\* C16: a file library request that succeeds appends access-log entries of its
\* own action and user: one ENTER for a listing, one DOWNLOAD for a download,
\* one UPLOAD for each file of an upload, one CREATE_FOLDER for a new folder,
\* one DELETE_FILE for a deleted file and one DELETE_FOLDER for a deleted
\* directory.
C16_AccessLogged ==
    [][last'.result = "OK" =>
         \A w \in Workspaces, u \in LibUsers, relPath \in RelPaths :
            /\ ListWorkspaceFiles(w, u, relPath)
                 => Len(NewEntries) = 1 /\ AllEntries(NewEntries, w, u, "ENTER")
            /\ DownloadWorkspaceFile(w, u, relPath)
                 => Len(NewEntries) = 1 /\ AllEntries(NewEntries, w, u, "DOWNLOAD")
            /\ \A names \in UploadLists :
                 UploadWorkspaceFiles(w, u, relPath, names)
                 => Len(NewEntries) = Len(names)
                      /\ AllEntries(NewEntries, w, u, "UPLOAD")
            /\ \A name \in RawNames :
                 CreateWorkspaceFolder(w, u, relPath, name)
                 => Len(NewEntries) = 1
                      /\ AllEntries(NewEntries, w, u, "CREATE_FOLDER")
            /\ DeleteWorkspaceItem(w, u, relPath)
                 => /\ Len(NewEntries) = 1
                    /\ TargetOf(w, relPath) \in files
                         => AllEntries(NewEntries, w, u, "DELETE_FILE")
                    /\ TargetOf(w, relPath) \in dirs
                         => AllEntries(NewEntries, w, u, "DELETE_FOLDER")
      ]_vars

\* An upload of two files has left two UPLOAD entries.
C16_Witness ==
    /\ last = Response("upload", "OK", Null)
    /\ Len(accessLog) >= 2
    /\ accessLog[Len(accessLog)].action = "UPLOAD"
    /\ accessLog[Len(accessLog) - 1].action = "UPLOAD"
    /\ accessLog[Len(accessLog)].fileName # accessLog[Len(accessLog) - 1].fileName

----------------------------------------------------------------------------
(* C17 *)

\* The directories once the root of the workspace has been created.
WithRoot(w) == dirs \cup Prefixes(workspaceRoot(w))

\* C17: deleting a path that does not exist is answered with
\* NotFound, removes nothing and appends no access-log entry; deleting a
\* directory removes it and everything under it and nothing else; deleting a
\* regular file removes that file and nothing else.
C17_Original ==
    [][last'.op = "deleteItem" =>
         \A w \in Workspaces, u \in LibUsers, relPath \in RelPaths :
            (/\ InWorkspace(u, w)
             /\ relPath # <<>>
             /\ Inside(w, relPath)
             /\ DeleteWorkspaceItem(w, u, relPath))
            => LET target == TargetOf(w, relPath)
               IN  /\ target \notin dirs \cup files
                     => /\ last'.result = "NotFound"
                        /\ dirs \subseteq dirs' /\ files' = files
                        /\ accessLog' = accessLog
                   /\ target \in dirs
                     => /\ last'.result = "OK"
                        /\ dirs' = {p \in dirs : ~IsPrefix(target, p)}
                        /\ files' = {p \in files : ~IsPrefix(target, p)}
                   /\ target \in files
                     => /\ last'.result = "OK"
                        /\ dirs' = dirs
                        /\ files' = files \ {target}
      ]_vars

\* What the service does instead: the request first creates the root of the
\* workspace when it is missing.  Deleting a path that does not exist then is answered with
\* NotFound, removes nothing and appends no access-log entry; deleting a
\* directory (the root just created included) removes it and everything
\* under it and nothing else; deleting a regular file removes that file and
\* nothing else.
C17_DeleteItem ==
    [][last'.op = "deleteItem" =>
         \A w \in Workspaces, u \in LibUsers, relPath \in RelPaths :
            (/\ InWorkspace(u, w)
             /\ relPath # <<>>
             /\ Inside(w, relPath)
             /\ DeleteWorkspaceItem(w, u, relPath))
            => LET target == TargetOf(w, relPath)
               IN  /\ target \notin WithRoot(w) \cup files
                     => /\ last'.result = "NotFound"
                        /\ dirs' = WithRoot(w) /\ files' = files
                        /\ accessLog' = accessLog
                   /\ target \in WithRoot(w)
                     => /\ last'.result = "OK"
                        /\ dirs' = {p \in WithRoot(w) : ~IsPrefix(target, p)}
                        /\ files' = {p \in files : ~IsPrefix(target, p)}
                        /\ Len(NewEntries) = 1
                   /\ target \in files
                     => /\ last'.result = "OK"
                        /\ dirs' = dirs
                        /\ files' = files \ {target}
                        /\ Len(NewEntries) = 1
      ]_vars

\* A folder that held an uploaded file has been deleted, and nothing is left
\* under it.
C17_Witness ==
    /\ last = Response("deleteItem", "OK", Null)
    /\ Len(accessLog) >= 2
    /\ LastEntry.action = "DELETE_FOLDER"
    /\ LastEntry.fileName = "docs"
    /\ \E i \in 1..(Len(accessLog) - 1) :
          /\ accessLog[i].action = "UPLOAD"
          /\ accessLog[i].path = <<"docs">>
          /\ accessLog[i].workspaceId = LastEntry.workspaceId
    /\ \A p \in dirs \cup files :
          ~IsPrefix(Append(workspaceRoot(LastEntry.workspaceId), "docs"), p)

----------------------------------------------------------------------------
(* C18 *)

\* The user has a membership in the workspace and its role passes the guard
\* for MANAGE_WORKSPACE_SETTINGS.
Permitted(u, w) ==
    /\ Members[w][u] # NoText
    /\ roleGuard(Members[w][u], {"MANAGE_WORKSPACE_SETTINGS"}) = "OK"

\* The step is a report request of the user on the workspace.
ReportRequest(w, u) ==
    \/ /\ last'.op = "progressSummary"
       /\ \E range \in Ranges : GetWorkspaceProgressSummary(w, u, range)
    \/ /\ last'.op = "progressEmployee"
       /\ \E e \in Employees, range \in Ranges :
             GetWorkspaceProgressEmployee(w, u, e, range)
    \/ /\ last'.op = "fileActivity"
       /\ \E days \in ActivityDays : GetWorkspaceFileActivity(w, u, days)

ReportOps == {"progressSummary", "progressEmployee", "fileActivity"}

\* C18: the progress summary, the progress of one employee and the file
\* activity are answered with a report only to a member whose role passes the
\* guard for MANAGE_WORKSPACE_SETTINGS; anyone else gets an error (NotFound
\* without a membership, Unauthorized without the permission) and no report
\* is computed.
C18_ReportsGated ==
    [][last'.op \in ReportOps =>
         \A w \in Workspaces, u \in Users :
            IF Permitted(u, w)
            THEN \/ last'.result = "OK" /\ last'.data # NoData
                 \/ ~ReportRequest(w, u)
            ELSE ReportRequest(w, u)
                 => /\ last'.result =
                         (IF Members[w][u] = NoText THEN "NotFound" ELSE "Unauthorized")
                    /\ last'.data = NoData
      ]_vars

\* A report of the work done has been answered: it shows the minutes of a
\* work-log, and the MEMBERs of its workspace are refused it.
C18_Witness ==
    /\ last.op = "progressSummary"
    /\ last.result = "OK"
    /\ \E e \in DOMAIN last.data.employeeStats :
          last.data.employeeStats[e].totalMinutes > 0
    /\ \E w \in Workspaces, u \in Users : Members[w][u] = MEMBER /\ ~Permitted(u, w)

----------------------------------------------------------------------------
(* C20 *)

\* The work-logs of the employee on tasks of the workspace whose stop time is
\* at or after `from` and at or before `to`.
Counted(w, e, range) ==
    {i \in 1..Len(workLogs) :
        /\ workLogs[i].userId = e
        /\ tasks[workLogs[i].taskId].workspace = w
        /\ range.from # Null => workLogs[i].stoppedAt >= range.from
        /\ range.to # Null => workLogs[i].stoppedAt <= range.to}

RECURSIVE MinutesOf(_)
MinutesOf(I) ==
    IF I = {} THEN 0
    ELSE LET i == CHOOSE j \in I : TRUE
         IN  workLogs[i].durationMinutes + MinutesOf(I \ {i})

RECURSIVE PagesOf(_)
PagesOf(I) ==
    IF I = {} THEN 0
    ELSE LET i == CHOOSE j \in I : TRUE
         IN  Max(workLogs[i].pagesCompleted, 0) + PagesOf(I \ {i})

\* The figures count the work-logs stopped within the range and no other.
FiguresOf(stats, w, range) ==
    LET I == Counted(w, stats.userId, range)
    IN  /\ stats.totalMinutes = MinutesOf(I)
        /\ stats.totalPages = PagesOf(I)
        /\ stats.lastActiveAt =
              (IF I = {} THEN Null
               ELSE CHOOSE at \in {workLogs[i].stoppedAt : i \in I} :
                       \A i \in I : workLogs[i].stoppedAt <= at)

\* C20: the minutes, the pages and the last activity a progress report shows
\* for an employee are those of the work-logs whose stop time is within
\* [from, to], both ends included; a work-log stopped outside the range adds
\* nothing, and the work-logs listed for one employee are those counted.
C20_RangeInclusive ==
    [][(last'.op \in {"progressSummary", "progressEmployee"} /\ last'.data # NoData) =>
         \A w \in Workspaces, u \in Users :
            Permitted(u, w) =>
               /\ last'.op = "progressSummary" =>
                    ((\E range \in Ranges : GetWorkspaceProgressSummary(w, u, range))
                     => \A e \in DOMAIN last'.data.employeeStats :
                           FiguresOf(last'.data.employeeStats[e], w, last'.data.dateRange))
               /\ last'.op = "progressEmployee" =>
                    ((\E e \in Employees, range \in Ranges :
                          GetWorkspaceProgressEmployee(w, u, e, range))
                     => /\ FiguresOf(last'.data.employee, w, last'.data.dateRange)
                        /\ {log.stoppedAt : log \in
                               {last'.data.workLogs[i] : i \in DOMAIN last'.data.workLogs}}
                           = {workLogs[i].stoppedAt :
                                 i \in Counted(w, last'.data.employee.userId,
                                               last'.data.dateRange)}
                        /\ Len(last'.data.workLogs)
                           = Cardinality(Counted(w, last'.data.employee.userId,
                                                 last'.data.dateRange)))
      ]_vars

\* A report on the range that ends at 500 counts a work-log stopped at 500,
\* and a report on the range that begins at 500 leaves out one stopped at 0.
C20_Witness ==
    /\ last.op = "progressEmployee"
    /\ last.result = "OK"
    /\ \/ /\ last.data.dateRange = [from |-> Null, to |-> 500]
          /\ \E i \in DOMAIN last.data.workLogs : last.data.workLogs[i].stoppedAt = 500
       \/ /\ last.data.dateRange = [from |-> 500, to |-> Null]
          /\ \E i \in DOMAIN last.data.workLogs : last.data.workLogs[i].stoppedAt = 500
          /\ \E i \in 1..Len(workLogs) :
                /\ workLogs[i].userId = last.data.employee.userId
                /\ workLogs[i].stoppedAt = 0

----------------------------------------------------------------------------
(* C19 *)

\* There is a user with the e-mail address.
Known(email) == \E u \in authDb.users : u.email = email

\* The error that ends the bootstrap of a new user, "OK" when there is none:
\* a failed save of the user, the account or the workspace, else the role
\* that is not found, else a failed save of the member or of the user's
\* current workspace, or a failed commit.
Triggering(roleName, fault) ==
    IF fault \in 1..3 THEN "Internal"
    ELSE IF ~\E j \in 1..Len(authDb.roles) : authDb.roles[j].name = roleName
         THEN "NotFound"
    ELSE IF fault \in 4..6 THEN "Internal"
    ELSE "OK"

\* The step has added the user, its account, its workspace and its membership
\* and nothing else, or it has left the collections as they were.
AllOrNothing(email) ==
    IF last'.result = "OK"
    THEN /\ authDb'.users = authDb.users \cup {[email |-> email, currentWorkspace |-> email]}
         /\ Cardinality(authDb'.accounts \ authDb.accounts) = 1
         /\ \A a \in authDb'.accounts \ authDb.accounts : a.userId = email
         /\ authDb'.workspaces = authDb.workspaces \cup {[id |-> email, owner |-> email]}
         /\ Cardinality(authDb'.members \ authDb.members) = 1
         /\ \A m \in authDb'.members \ authDb.members :
               m.userId = email /\ m.workspaceId = email
         /\ authDb.accounts \subseteq authDb'.accounts
         /\ authDb.members \subseteq authDb'.members
         /\ authDb'.roles = authDb.roles
    ELSE authDb' = authDb

\* C19: registerUser, loginOrCreateAccount and verifyUser for a user that
\* does not exist yet either create the user, the account, the workspace and
\* the membership together, or, when a step fails (a write, or the role
\* lookup that finds nothing), leave none of them and answer with the error
\* of that step.
C19_BootstrapAllOrNothing ==
    [][last'.op \in {"register", "login", "verify"} =>
         /\ \A email \in Emails, fault \in Faults :
               /\ (~Known(email) /\ RegisterUser(email, fault))
                    => last'.result = Triggering(OWNER, fault) /\ AllOrNothing(email)
               /\ (~Known(email) /\ LoginOrCreateAccount(email, fault))
                    => last'.result = Triggering(OWNER, fault) /\ AllOrNothing(email)
         /\ \A c \in EMPLOYEE_CREDENTIALS, fault \in Faults :
               (~Known(employeeEmail(c.employeeCode))
                  /\ VerifyUser(c.employeeCode, c.password, fault))
               => /\ last'.result = Triggering(c.role, fault)
                  /\ AllOrNothing(employeeEmail(c.employeeCode))
      ]_vars

\* A registration has found no OWNER role: it is answered NotFound, and the
\* user, the account and the workspace it had saved are not in the
\* collections.
C19_Witness ==
    /\ last = Response("register", "NotFound", Null)
    /\ authDb = EmptyDb

----------------------------------------------------------------------------
(* C21 *)

\* C21: when the stop of one task fails in a stop-all, every other Running
\* task of the workspace is Idle afterwards with one new work-log and its
\* totals updated, the task whose stop failed is Running as before, and the
\* request is answered with the error.
C21_StopAllNotAtomic ==
    [][(last'.op = "stopAll" /\ last'.result = "Internal") =>
         \A u \in FaultUsers, bad \in TaskIds, step \in StopWrites :
            StopAllFailing(HomeWorkspace, u, bad, step)
            => LET R == RunningTasks(tasks, HomeWorkspace)
               IN  /\ tasks'[bad] = tasks[bad]
                   /\ Running(bad)'
                   /\ \A t \in R \ {bad} :
                         /\ ~Running(t)'
                         /\ Cardinality(NewLogsOf(t)) = 1
                         /\ tasks'[t].totalSecondsSpent =
                               currentSeconds(tasks[t])
                                 + durationSeconds(clock, tasks[t].activeStartAt)
                         /\ tasks'[t].lastStoppedAt = clock
                   /\ \A t \in TaskIds \ R : tasks'[t] = tasks[t]
      ]_vars

\* A stop-all on two Running tasks has failed on one of them: the other is
\* Idle with a work-log, the one that failed is still Running.
C21_Witness ==
    /\ last = Response("stopAll", "Internal", Null)
    /\ \E t \in TaskIds, b \in TaskIds :
          /\ t # b
          /\ Running(b)
          /\ ~Running(t)
          /\ tasks[t].lastStoppedAt = clock
          /\ \E i \in 1..Len(workLogs) :
                workLogs[i].taskId = t /\ workLogs[i].stoppedAt = clock

----------------------------------------------------------------------------
(* C22 *)

\* The page total of the task, a total that is not set counting as 0.
PageTotal(task) == IF task.pagesCompleted = Null THEN 0 ELSE task.pagesCompleted

\* C22: a successful stop adds the pages it supplies to the page total of the
\* task and puts the remarks it supplies in place of the task's; pages that
\* are left out leave the page total as it is and remarks that are left out
\* leave the remarks as they are; the work-log holds what was supplied, or
\* null.
C22_PagesAndRemarks ==
    [][(last'.op = "stop" /\ last'.result = "OK") =>
         \A t \in TaskIds, u \in Users, body \in StopBodies :
            StopTaskTimer(t, u, body)
            => /\ IF body.pagesCompleted # Null
                  THEN tasks'[t].pagesCompleted = PageTotal(tasks[t]) + body.pagesCompleted
                  ELSE tasks'[t].pagesCompleted = tasks[t].pagesCompleted
               /\ IF body.remarks # NoText
                  THEN tasks'[t].remarks = body.remarks
                  ELSE tasks'[t].remarks = tasks[t].remarks
               /\ LastLog'.pagesCompleted = body.pagesCompleted
               /\ LastLog'.remarks = body.remarks
      ]_vars

\* A stop that supplied 2 pages and remarks has been served on the task that
\* had 3 pages and older remarks: the task has 5 pages and the new remarks.
C22_Witness ==
    /\ last = Response("stop", "OK", Null)
    /\ tasks["t2"].pagesCompleted = 5
    /\ tasks["t2"].remarks = "r"
    /\ LastLog.taskId = "t2"
    /\ LastLog.pagesCompleted = 2

----------------------------------------------------------------------------
(* C23 *)

\* The bodies among RawStopBodies that the claim speaks of: pages below 0 or
\* not whole, or remarks that are not a string.
FailsValidation(raw) ==
    \/ raw.pagesCompleted.kind = "number"
         /\ (raw.pagesCompleted.halves < 0 \/ raw.pagesCompleted.halves % 2 # 0)
    \/ raw.remarks.kind \notin {"undefined", "string"}

\* C23: a stop request whose body has negative or fractional pages, or
\* remarks that are not a string, is turned down before the timer service
\* runs: the answer is the validation error whoever asks and whatever the
\* task, no timer field of any task changes (a Running task stays Running)
\* and no work-log is appended.
C23_InvalidBodyRejected ==
    [][last'.op = "stop" =>
         \/ /\ last'.result = "ZodError"
            /\ \A x \in TaskIds : tasks'[x].isRunning = tasks[x].isRunning
            /\ tasks' = tasks
            /\ workLogs' = workLogs
         \/ \A raw \in {r \in RawStopBodies : FailsValidation(r)} :
               \A t \in TaskIds, u \in FaultUsers : ~StopTaskTimerController(t, u, raw)
      ]_vars

\* A stop with a body that does not pass has been answered while t1 was
\* Running, and t1 is still Running with no work-log written.
C23_Witness ==
    /\ last = Response("stop", "ZodError", Null)
    /\ tasks["t1"].isRunning
    /\ tasks["t1"].activeStartAt = 500
    /\ workLogs = <<>>

----------------------------------------------------------------------------
(* C24 *)

\* The role documents with the given name.
RoleDocs(roles, role) == {j \in 1..Len(roles) : roles[j].name = role}

\* C24: after any run of ensureRolesSeeded, whatever the roles it has found
\* (none, or those a run that was cut short has left), there is exactly one
\* role document for each role name of the permission table, with the
\* permissions of the table, and a further run, and one more after that,
\* creates no role and changes no role.
C24_SeedingIdempotent ==
    [][EnsureRolesSeeded
         => LET seeded == authDb'.roles
            IN  /\ \A i \in 1..Len(RoleNames) :
                      /\ Cardinality(RoleDocs(seeded, RoleNames[i])) = 1
                      /\ \A j \in RoleDocs(seeded, RoleNames[i]) :
                            seeded[j].permissions = RolePermissions[RoleNames[i]]
                /\ Len(seeded) = Len(RoleNames)
                /\ ensureRolesSeeded(seeded) = seeded
                /\ ensureRolesSeeded(ensureRolesSeeded(seeded)) = seeded
                /\ \A j \in 1..Len(authDb.roles) : seeded[j] = authDb.roles[j]
      ]_vars

\* The seeding has run: the three roles are there, in the order of the table,
\* and an account has been set up since.
C24_Witness ==
    /\ Len(authDb.roles) = 3
    /\ authDb.roles[3].name = MEMBER
    /\ authDb.users # {}

----------------------------------------------------------------------------
(* C25 *)

\* C25: no two work-logs of one task have the same startedAt, so that a
\* Running period of a task has at most one work-log, also when stops of one
\* Running task overlap.
C25_OneLogPerRunningPeriod ==
    \A i, j \in 1..Len(workLogs) :
       (i # j /\ workLogs[i].taskId = workLogs[j].taskId)
       => workLogs[i].startedAt # workLogs[j].startedAt

----------------------------------------------------------------------------
(* C26 *)

\* The tasks that had no time recorded before their first start.
FreshTasks == {"t1"}

\* The sum, over the first n work-logs, of max(1, whole seconds between
\* startedAt and stoppedAt) of the work-logs of task t.
RECURSIVE LoggedSeconds(_, _)
LoggedSeconds(t, n) ==
    IF n = 0 THEN 0
    ELSE LoggedSeconds(t, n - 1)
         + (IF workLogs[n].taskId = t
            THEN Max(1, WholeSeconds(workLogs[n].startedAt, workLogs[n].stoppedAt))
            ELSE 0)

\* C26: when no request is under way, totalSecondsSpent of a task that had
\* no time recorded before its first start is the sum, over the work-logs of
\* the task, of max(1, whole seconds from startedAt to stoppedAt).
C26_TotalIsSumOfLogs ==
    reqs = EmptyBag
    => \A t \in FreshTasks :
          tasks[t].exists
          => tasks[t].totalSecondsSpent = LoggedSeconds(t, Len(workLogs))

----------------------------------------------------------------------------
(* C27 *)

\* C27: the work-log of a stop and the update of its task are applied
\* together: no task is Running with the activeStartAt that one of its
\* work-logs has as startedAt, also after a stop whose task save has failed.
C27_LogAndTaskTogether ==
    \A i \in 1..Len(workLogs) :
       LET task == tasks[workLogs[i].taskId]
       IN  ~(task.isRunning /\ task.activeStartAt = workLogs[i].startedAt)

----------------------------------------------------------------------------
(* C28 *)

\* C28: a successful update by an actor whose role in the workspace is
\* MEMBER sets the status of the task to the status of the body and changes
\* nothing else of the task, nor any other task: the assignee stays as it
\* was whatever the body says about it.
C28_MemberUpdatesStatusOnly ==
    [][(last'.op = "update" /\ last'.result = "OK") =>
         \A t \in TaskIds, u \in Users, body \in UpdateBodies :
            (/\ Members[HomeWorkspace][u] = MEMBER
             /\ UpdateTask(t, u, HomeWorkspace, body))
            => /\ tasks'[t].status = body.status
               /\ tasks'[t].assignedTo = tasks[t].assignedTo
               /\ tasks' = [tasks EXCEPT ![t].status = body.status]
      ]_vars

\* An update has been accepted after which t1 is DONE and still assigned to
\* cy, as an update by the member cy leaves it.
C28_Witness ==
    /\ last = Response("update", "OK", Null)
    /\ tasks["t1"].status = "DONE"
    /\ tasks["t1"].assignedTo = "cy"

----------------------------------------------------------------------------
(* C29 *)

\* The task as it would be with its timer in the other state, started at the
\* given time when it is Idle and stopped when it is Running.
OtherTimerState(task, now) ==
    IF task.isRunning
    THEN [task EXCEPT !.isRunning = FALSE, !.activeStartAt = Null]
    ELSE [task EXCEPT !.isRunning = TRUE, !.activeStartAt = now]

\* C29: for an actor who is neither OWNER or ADMIN in the workspace of the
\* task nor its assignee, what a start or a stop is answered does not depend
\* on the timer: it is never Conflict and never OK, it is what it would be
\* with the timer in the other state, and for a MEMBER it is Unauthorized,
\* on a Running task as on an Idle one; nothing is changed.
C29_AccessBeforeState ==
    [][last'.op \in {"start", "stop"} =>
         \A t \in TaskIds, u \in Users :
            LET request ==
                    \/ last'.op = "start" /\ StartTaskTimer(t, u)
                    \/ last'.op = "stop"
                          /\ \E body \in StopBodies : StopTaskTimer(t, u, body)
                other == OtherTimerState(tasks[t], clock)
            IN  (tasks[t].exists /\ ~MayUseTimer(t, u) /\ request)
                => /\ last'.result \notin {"Conflict", "OK"}
                   /\ last'.result = StartOutcome(other, u)
                   /\ last'.result = StopOutcome(other, u)
                   /\ PlainMember(t, u) => last'.result = "Unauthorized"
                   /\ tasks' = tasks
                   /\ workLogs' = workLogs
      ]_vars

\* A stop has been answered Unauthorized while no timer runs, after a timer
\* has run: the stop was not answered Conflict.
C29_Witness ==
    /\ last = Response("stop", "Unauthorized", Null)
    /\ \A t \in TaskIds : tasks[t].exists /\ ~tasks[t].isRunning
    /\ workLogs # <<>>

----------------------------------------------------------------------------
(* C30 *)

\* The memberships of the owner of a workspace in that workspace.
OwnerMemberships(w) ==
    {m \in authDb.members : m.workspaceId = w.id /\ m.userId = w.owner}

\* C30: the owner of every workspace that a bootstrap has created has exactly
\* one membership in that workspace, with the role OWNER, and that workspace
\* as current workspace.
C30_OwnerMembership ==
    \A w \in authDb.workspaces :
       /\ Cardinality(OwnerMemberships(w)) = 1
       /\ \A m \in OwnerMemberships(w) : m.role = OWNER
       /\ \E u \in authDb.users : u.email = w.owner /\ u.currentWorkspace = w.id

============================================================================
